---------------------------- MODULE Spec2Model ----------------------------
(***************************************************************************)
(* Model of the asset360 constraint core: the backward solver              *)
(* (substitute -> simplify -> extract), the predicate algebra and its wire *)
(* format, the forward evaluator and the constraint-set orchestration.     *)
(*                                                                         *)
(* Strings (IRIs, field names, operators, string values) are sequences of  *)
(* one-character strings, so that local_name() and to_string() are         *)
(* computed character by character, as the code computes them.             *)
(***************************************************************************)
EXTENDS Integers, Sequences, FiniteSets, TLC

VARIABLES
    pc,         \* "build" while inputs are composed, "done" once the operation ran
    \* -- simplifier
    node,       \* backward_solver::Simplified under construction
    other,      \* second Simplified operand (De Morgan)
    sres,       \* result of simplify(node)
    dmLeft,     \* simplify(Not(Or(node, other))) / simplify(Not(And(node, other)))
    dmRight,    \* simplify(And(Not node, Not other)) / simplify(Or(Not node, Not other))
    dmDual,     \* FALSE: Not(Or) form, TRUE: Not(And) form
    \* -- backward solver on a forbidden-pairs rule
    pairs,      \* the (primary, secondary) pairs of the rule, in rule order
    known,      \* known_fields
    solved,     \* result of solve_backward(rule, known, secondary)
    \* -- predicate algebra and wire format
    pred,       \* predicate::Predicate built through the constructors
    lastCall,   \* the constructor call that built pred: [fn, args]
    wire,       \* serde_json::to_value(pred)
    back,       \* serde_json::from_value(wire)
    single,     \* [and |-> Predicate::and([pred]), or |-> Predicate::or([pred])]
    \* -- forward evaluator
    rule,       \* shacl_ast::ShaclAst under construction
    data,       \* the record (serde_json::Value) the AST is evaluated on
    level,      \* the rule's EnforcementLevel
    violations, \* result of evaluate_forward(rule, data, message, level)
    \* -- constraint set
    shapes,         \* ConstraintSet::shapes
    schema,         \* the attached schema: None, or the target class's slots
    record,         \* object_data passed to solve
    target,         \* target_field passed to solve
    combined,       \* solve's local `combined` (None when no rule contributed)
    result,         \* result of solve(record, target)
    variant,        \* record with the target field changed or removed
    variantResult,  \* result of solve(variant, target)
    probe,          \* one call of evaluate_predicate_for_value: [pred, candidate, out]
    evaluated,      \* result of evaluate(record)
    \* -- loose equality
    lhs,  \* first value given to the loose equalities
    rhs,  \* second value given to the loose equalities
    loose, \* answers of values_equal and values_equal_json on (lhs, rhs) and (rhs, lhs)
    \* -- cardinality
    counted, \* resolve_count, eval_node and substitute on a PropCount leaf: [count, holds, subst]
    \* -- scope predicate
    query,  \* the SPARQL text of the shape
    triples,  \* the subject, predicate, local name and object written on each line of query
    focus,  \* focus_data
    uriField,  \* uri_field
    scopeShape,  \* the shape given to derive_scope_predicate
    shared,  \* result of extract_shared_attribute_joins(query)
    scoped, \* result of derive_scope_predicate(scopeShape, focus, uriField)
    \* -- parseVars
    ttl,  \* the document given to parse_shacl: the items the Turtle reader yields, per rule block
    classFilter,  \* the target_class argument of parse_shacl
    preferred,  \* the language argument of parse_shacl
    parsed, \* result of parse_shacl(ttl, classFilter, preferred)
    \* -- totalVars
    goal,  \* the target_field of the operation
    outcome, \* the operation that ran and what it returned
    \* -- walkVars
    graph,  \* the triples of the store the constraint node is read from, in document order
    frames,  \* the call stack of parse_constraint_node: its activations and those of collect_rdf_list
    returned  \* the value the callee that just returned hands to its caller

simplifyVars == <<node, other, sres, dmLeft, dmRight, dmDual>>
solveVars == <<pairs, known, solved>>
predVars == <<pred, lastCall, wire, back, single>>
evalVars == <<rule, data, level, violations>>
setVars == <<shapes, schema, record, target, combined, result, variant, variantResult, probe,
             evaluated>>
looseVars == <<lhs, rhs, loose>>
countVars == <<counted>>
scopeVars == <<query, triples, focus, uriField, scopeShape, shared, scoped>>

parseVars == <<ttl, classFilter, preferred, parsed>>

totalVars == <<goal, outcome>>

walkVars == <<graph, frames, returned>>

vars == <<pc, simplifyVars, solveVars, predVars, evalVars, setVars, looseVars, countVars, scopeVars, parseVars, totalVars, walkVars>>

\* Option<T>
None == [none |-> TRUE]
Some(x) == [some |-> x]

\* slot of an operation that has not run yet
NotRun == [notrun |-> TRUE]

\* slot holding the Vec an operation returned
Ran(x) == [ran |-> x]

\* serde_json::Map with no entries
EmptyMap == [f \in {} |-> None]

-----------------------------------------------------------------------------
(* serde_json::Value                                                       *)

JNull == [t |-> "Null"]
JBool(b) == [t |-> "Bool", b |-> b]
JNum(n) == [t |-> "Num", n |-> n]
JStr(s) == [t |-> "Str", s |-> s]
JArr(a) == [t |-> "Arr", a |-> a]
JObj(o) == [t |-> "Obj", o |-> o]

\* bool::to_string
BoolToString(b) == IF b THEN <<"t", "r", "u", "e">> ELSE <<"f", "a", "l", "s", "e">>

Digit(d) == <<"0", "1", "2", "3", "4", "5", "6", "7", "8", "9">>[d + 1]

RECURSIVE NatToString(_)
NatToString(n) == IF n < 10 THEN <<Digit(n)>> ELSE NatToString(n \div 10) \o <<Digit(n % 10)>>

\* serde_json::Number::to_string for integer numbers
NumToString(n) == IF n < 0 THEN <<"-">> \o NatToString(-n) ELSE NatToString(n)

\* values_equal_json without the loose comparison of a string with a boolean
\* or a number
values_equal_json_structural(a, b) == a = b

\* backward_solver::values_equal_json: structural equality, or one side a
\* string equal to the other's stringified bool/number.
values_equal_json(a, b) ==
    IF a = b THEN TRUE
    ELSE IF a.t = "Str" THEN
        CASE b.t = "Bool" -> a.s = BoolToString(b.b)
          [] b.t = "Num" -> a.s = NumToString(b.n)
          [] b.t = "Str" -> a.s = b.s
          [] OTHER -> FALSE
    ELSE IF b.t = "Str" THEN
        CASE a.t = "Bool" -> b.s = BoolToString(a.b)
          [] a.t = "Num" -> b.s = NumToString(a.n)
          [] OTHER -> FALSE
    ELSE FALSE

-----------------------------------------------------------------------------
(* backward_solver::Simplified                                             *)

SBool(b) == [k |-> "Bool", b |-> b]
SAnd(cs) == [k |-> "And", cs |-> cs]
SOr(cs) == [k |-> "Or", cs |-> cs]
SNot(c) == [k |-> "Not", c |-> c]
FCEquals(f, v) == [k |-> "FC", field |-> f, kind |-> "Equals", v |-> v]
FCIn(f, vs) == [k |-> "FC", field |-> f, kind |-> "In", vs |-> vs]
FCNotEquals(f, v) == [k |-> "FC", field |-> f, kind |-> "NotEquals", v |-> v]

\* a test for a constant that recognises Bool(false) only
IsBool_falseOnly(n, b) == n.k = "Bool" /\ n.b = b /\ ~b

\* matches!(c, Simplified::Bool(b))
IsBool(n, b) == n.k = "Bool" /\ n.b = b

RECURSIVE simplify(_)

\* simplify whose De Morgan rewrite wraps each child in Not without
\* simplifying the negated children or the rebuilt connective
simplify_shallowDeMorgan(n) ==
    CASE n.k = "Not" ->
            LET s == simplify(n.c) IN
            CASE s.k = "Bool" -> SBool(~s.b)
              [] s.k = "FC" /\ s.kind = "Equals" -> FCNotEquals(s.field, s.v)
              [] s.k = "Or" -> SAnd([i \in 1..Len(s.cs) |-> SNot(s.cs[i])])
              [] s.k = "And" -> SOr([i \in 1..Len(s.cs) |-> SNot(s.cs[i])])
              [] OTHER -> SNot(s)
      [] n.k = "And" ->
            LET simplified == [i \in 1..Len(n.cs) |-> simplify(n.cs[i])]
                filtered == SelectSeq(simplified, LAMBDA c : ~IsBool(c, TRUE))
            IN  IF \E i \in 1..Len(simplified) : IsBool(simplified[i], FALSE)
                THEN SBool(FALSE)
                ELSE CASE Len(filtered) = 0 -> SBool(TRUE)
                       [] Len(filtered) = 1 -> filtered[1]
                       [] OTHER -> SAnd(filtered)
      [] n.k = "Or" ->
            LET simplified == [i \in 1..Len(n.cs) |-> simplify(n.cs[i])]
                filtered == SelectSeq(simplified, LAMBDA c : ~IsBool(c, FALSE))
            IN  IF \E i \in 1..Len(simplified) : IsBool(simplified[i], TRUE)
                THEN SBool(TRUE)
                ELSE CASE Len(filtered) = 0 -> SBool(FALSE)
                       [] Len(filtered) = 1 -> filtered[1]
                       [] OTHER -> SOr(filtered)
      [] OTHER -> n

\* simplify whose De Morgan rewrite pushes the negation onto the children
\* of an Or only, leaving Not(And(..)) wrapped
simplify_halfDeMorgan(n) ==
    CASE n.k = "Not" ->
            LET s == simplify(n.c) IN
            CASE s.k = "Bool" -> SBool(~s.b)
              [] s.k = "FC" /\ s.kind = "Equals" -> FCNotEquals(s.field, s.v)
              [] s.k = "Or" ->
                    simplify(SAnd([i \in 1..Len(s.cs) |-> simplify(SNot(s.cs[i]))]))
              [] OTHER -> SNot(s)
      [] n.k = "And" ->
            LET simplified == [i \in 1..Len(n.cs) |-> simplify(n.cs[i])]
                filtered == SelectSeq(simplified, LAMBDA c : ~IsBool(c, TRUE))
            IN  IF \E i \in 1..Len(simplified) : IsBool(simplified[i], FALSE)
                THEN SBool(FALSE)
                ELSE CASE Len(filtered) = 0 -> SBool(TRUE)
                       [] Len(filtered) = 1 -> filtered[1]
                       [] OTHER -> SAnd(filtered)
      [] n.k = "Or" ->
            LET simplified == [i \in 1..Len(n.cs) |-> simplify(n.cs[i])]
                filtered == SelectSeq(simplified, LAMBDA c : ~IsBool(c, FALSE))
            IN  IF \E i \in 1..Len(simplified) : IsBool(simplified[i], TRUE)
                THEN SBool(TRUE)
                ELSE CASE Len(filtered) = 0 -> SBool(FALSE)
                       [] Len(filtered) = 1 -> filtered[1]
                       [] OTHER -> SOr(filtered)
      [] OTHER -> n

\* backward_solver::simplify
simplify(n) ==
    CASE n.k = "Bool" -> n
      [] n.k = "Not" ->
            LET s == simplify(n.c) IN
            CASE s.k = "Bool" -> SBool(~s.b)
              [] s.k = "FC" /\ s.kind = "Equals" -> FCNotEquals(s.field, s.v)
              [] s.k = "Or" ->
                    simplify(SAnd([i \in 1..Len(s.cs) |-> simplify(SNot(s.cs[i]))]))
              [] s.k = "And" ->
                    simplify(SOr([i \in 1..Len(s.cs) |-> simplify(SNot(s.cs[i]))]))
              [] OTHER -> SNot(s)
      [] n.k = "And" ->
            LET simplified == [i \in 1..Len(n.cs) |-> simplify(n.cs[i])]
                filtered == SelectSeq(simplified, LAMBDA c : ~IsBool(c, TRUE))
            IN  IF \E i \in 1..Len(simplified) : IsBool(simplified[i], FALSE)
                THEN SBool(FALSE)
                ELSE CASE Len(filtered) = 0 -> SBool(TRUE)
                       [] Len(filtered) = 1 -> filtered[1]
                       [] OTHER -> SAnd(filtered)
      [] n.k = "Or" ->
            LET simplified == [i \in 1..Len(n.cs) |-> simplify(n.cs[i])]
                filtered == SelectSeq(simplified, LAMBDA c : ~IsBool(c, FALSE))
            IN  IF \E i \in 1..Len(simplified) : IsBool(simplified[i], TRUE)
                THEN SBool(TRUE)
                ELSE CASE Len(filtered) = 0 -> SBool(FALSE)
                       [] Len(filtered) = 1 -> filtered[1]
                       [] OTHER -> SOr(filtered)
      [] OTHER -> n

-----------------------------------------------------------------------------
(* Inputs of the simplifier: Simplified trees composed step by step.       *)

MaxDepth == 2

F_P == <<"p">>
F_S == <<"s">>
V_a == JStr(<<"a">>)
V_b == JStr(<<"b">>)

SLeaves ==
    { SBool(TRUE), SBool(FALSE), FCEquals(F_S, V_a), FCNotEquals(F_S, V_b),
      FCIn(F_S, <<V_a, V_b>>), FCEquals(F_P, V_a), SAnd(<< >>), SOr(<< >>) }

SWrapLeaves == { SBool(TRUE), SBool(FALSE), FCEquals(F_S, V_b), FCIn(F_S, <<V_a>>) }

DMOperands ==
    { SBool(TRUE), SBool(FALSE), FCEquals(F_S, V_a), FCIn(F_S, <<V_a, V_b>>),
      SNot(FCIn(F_S, <<V_a>>)), SOr(<<FCEquals(F_S, V_a), FCEquals(F_S, V_b)>>),
      SAnd(<<FCEquals(F_S, V_a), SBool(TRUE)>>), SNot(SNot(FCEquals(F_S, V_b))) }

RECURSIVE SDepth(_)
SDepth(n) ==
    CASE n.k = "Not" -> 1 + SDepth(n.c)
      [] n.k \in {"And", "Or"} ->
            IF Len(n.cs) = 0 THEN 0
            ELSE 1 + (CHOOSE d \in {SDepth(n.cs[i]) : i \in 1..Len(n.cs)} :
                        \A i \in 1..Len(n.cs) : SDepth(n.cs[i]) <= d)
      [] OTHER -> 0

SimplifyIdle ==
    /\ node = NotRun /\ other = NotRun /\ sres = NotRun
    /\ dmLeft = NotRun /\ dmRight = NotRun /\ dmDual = FALSE

SolveIdle == pairs = << >> /\ known = EmptyMap /\ solved = NotRun

PredIdle ==
    /\ pred = NotRun /\ lastCall = NotRun /\ wire = NotRun /\ back = NotRun
    /\ single = NotRun

EvalIdle == rule = NotRun /\ data = NotRun /\ level = NotRun /\ violations = NotRun

SetIdle ==
    /\ shapes = << >> /\ schema = None /\ record = NotRun /\ target = << >>
    /\ combined = NotRun /\ result = NotRun /\ variant = NotRun
    /\ variantResult = NotRun /\ probe = NotRun /\ evaluated = NotRun

WalkIdle == graph = NotRun /\ frames = NotRun /\ returned = NotRun

TotalIdle == goal = NotRun /\ outcome = NotRun

ParseIdle == ttl = NotRun /\ classFilter = NotRun /\ preferred = NotRun /\ parsed = NotRun

ScopeIdle == query = NotRun /\ triples = NotRun /\ focus = NotRun /\ uriField = NotRun /\ scopeShape = NotRun /\ shared = NotRun /\ scoped = NotRun

CountIdle == counted = NotRun

LooseIdle == lhs = NotRun /\ rhs = NotRun /\ loose = NotRun

InitSimplify ==
    /\ pc = "build"
    /\ node \in SLeaves
    /\ other = NotRun /\ sres = NotRun
    /\ dmLeft = NotRun /\ dmRight = NotRun /\ dmDual = FALSE
    /\ SolveIdle /\ PredIdle /\ EvalIdle /\ SetIdle /\ LooseIdle /\ CountIdle /\ ScopeIdle /\ ParseIdle /\ TotalIdle /\ WalkIdle

CanWrap == pc = "build" /\ SDepth(node) < MaxDepth

WrapNot ==
    /\ CanWrap
    /\ node' = SNot(node)
    /\ UNCHANGED <<pc, other, sres, dmLeft, dmRight, dmDual, solveVars, predVars, evalVars, setVars, looseVars, countVars, scopeVars, parseVars, totalVars, walkVars>>

WrapAnd ==
    /\ CanWrap
    /\ \/ node' = SAnd(<<node>>)
       \/ \E l \in SWrapLeaves : node' \in {SAnd(<<node, l>>), SAnd(<<l, node>>)}
    /\ UNCHANGED <<pc, other, sres, dmLeft, dmRight, dmDual, solveVars, predVars, evalVars, setVars, looseVars, countVars, scopeVars, parseVars, totalVars, walkVars>>

WrapOr ==
    /\ CanWrap
    /\ \/ node' = SOr(<<node>>)
       \/ \E l \in SWrapLeaves : node' \in {SOr(<<node, l>>), SOr(<<l, node>>)}
    /\ UNCHANGED <<pc, other, sres, dmLeft, dmRight, dmDual, solveVars, predVars, evalVars, setVars, looseVars, countVars, scopeVars, parseVars, totalVars, walkVars>>

\* the Simplify step applied to the composed node
ApplySimplify ==
    /\ pc = "build"
    /\ sres' = simplify(node)
    /\ pc' = "done"
    /\ UNCHANGED <<node, other, dmLeft, dmRight, dmDual, solveVars, predVars, evalVars, setVars, looseVars, countVars, scopeVars, parseVars, totalVars, walkVars>>

\* both sides of the De Morgan law, simplified
ApplyDeMorgan ==
    /\ pc = "build"
    /\ \E b \in DMOperands, dual \in BOOLEAN, swap \in BOOLEAN :
          LET x == IF swap THEN b ELSE node
              y == IF swap THEN node ELSE b
          IN  /\ other' = b
              /\ dmDual' = dual
              /\ dmLeft' = IF dual THEN simplify(SNot(SAnd(<<x, y>>)))
                                   ELSE simplify(SNot(SOr(<<x, y>>)))
              /\ dmRight' = IF dual THEN simplify(SOr(<<SNot(x), SNot(y)>>))
                                    ELSE simplify(SAnd(<<SNot(x), SNot(y)>>))
    /\ pc' = "done"
    /\ UNCHANGED <<node, sres, solveVars, predVars, evalVars, setVars, looseVars, countVars, scopeVars, parseVars, totalVars, walkVars>>

NextSimplify == WrapNot \/ WrapAnd \/ WrapOr \/ ApplySimplify \/ ApplyDeMorgan

SpecSimplify == InitSimplify /\ [][NextSimplify]_vars

\* C1: simplify is idempotent: simplifying the result of simplify(node)
\* again returns that same result, structurally.
C1_SimplifyIdempotent == sres # NotRun => simplify(sres) = sres

\* C1 witness: a composite node with a Not over an Or was simplified to a
\* different tree that still has connectives.
C1_Witness ==
    /\ sres # NotRun /\ sres # node
    /\ node.k = "Not" /\ node.c.k = "Or"
    /\ sres.k = "And"

\* C2: De Morgan: simplify(Not(Or(a,b))) = simplify(And(Not a, Not b)) and
\* simplify(Not(And(a,b))) = simplify(Or(Not a, Not b)), structurally.
C2_DeMorgan == dmLeft # NotRun => dmLeft = dmRight

\* C2 witness: the dual form applied to two non-constant operands, giving an Or.
C2_Witness ==
    /\ dmLeft # NotRun /\ dmDual /\ dmLeft.k = "Or"
    /\ node.k \in {"And", "Or", "Not"} /\ other.k \in {"And", "Or", "Not"}

-----------------------------------------------------------------------------
(* shacl_ast::PropertyPath and shacl_ast::ShaclAst                         *)

PIri(iri) == [pt |-> "Iri", iri |-> iri]
PSequence(steps) == [pt |-> "Sequence", steps |-> steps]
PInverse(path) == [pt |-> "Inverse", path |-> path]

\* index of the last occurrence of ch in s, 0 when there is none
LastIndexOf(s, ch) ==
    IF \E i \in 1..Len(s) : s[i] = ch
    THEN CHOOSE i \in 1..Len(s) : s[i] = ch /\ \A j \in (i + 1)..Len(s) : s[j] # ch
    ELSE 0

\* str::rsplit_once(ch).map(|(_, name)| name)
RSplitOnceTail(s, ch) ==
    IF LastIndexOf(s, ch) = 0 THEN None
    ELSE Some(SubSeq(s, LastIndexOf(s, ch) + 1, Len(s)))

\* local_name that looks for the last `/` before the last `#`
local_name_slashFirst(path) ==
    IF path.pt = "Iri"
    THEN IF RSplitOnceTail(path.iri, "/") # None
         THEN RSplitOnceTail(path.iri, "/")
         ELSE RSplitOnceTail(path.iri, "#")
    ELSE None

\* PropertyPath::local_name
local_name(path) ==
    IF path.pt = "Iri"
    THEN IF RSplitOnceTail(path.iri, "#") # None
         THEN RSplitOnceTail(path.iri, "#")
         ELSE RSplitOnceTail(path.iri, "/")
    ELSE None

AAnd(children) == [a |-> "And", children |-> children]
AOr(children) == [a |-> "Or", children |-> children]
ANot(child) == [a |-> "Not", child |-> child]
PropEquals(path, value) == [a |-> "PropEquals", path |-> path, value |-> value]
PropIn(path, values) == [a |-> "PropIn", path |-> path, values |-> values]
PropCount(path, min, max) == [a |-> "PropCount", path |-> path, min |-> min, max |-> max]
PathEquals(path_a, path_b) == [a |-> "PathEquals", path_a |-> path_a, path_b |-> path_b]
PathDisjoint(path_a, path_b) == [a |-> "PathDisjoint", path_a |-> path_a, path_b |-> path_b]

-----------------------------------------------------------------------------
(* predicate::Predicate                                                    *)

OP_EQUALS == <<"e", "q", "u", "a", "l", "s">>
OP_IN == <<"i", "n">>
OP_NOT_EQUALS == <<"n", "o", "t", "E", "q", "u", "a", "l", "s">>

PSimple(field_id, predicate_type_id, value) ==
    [p |-> "Simple", field_id |-> field_id, predicate_type_id |-> predicate_type_id,
     value |-> value]
PNegated(predicate) == [p |-> "Negated", operator |-> "NOT", predicate |-> predicate]
PExpression(operator, predicates) ==
    [p |-> "Expression", operator |-> operator, predicates |-> predicates]

\* Predicate::simple
Predicate_simple(field_id, op, value) == PSimple(field_id, op, Some(value))

\* Predicate::simple_no_value
Predicate_simple_no_value(field_id, op) == PSimple(field_id, op, None)

\* the flattening loop of Predicate::and / Predicate::or
RECURSIVE Flatten(_, _)
Flatten(predicates, operator) ==
    IF predicates = << >> THEN << >>
    ELSE LET q == Head(predicates) IN
         (IF q.p = "Expression" /\ q.operator = operator THEN q.predicates ELSE <<q>>)
            \o Flatten(Tail(predicates), operator)

\* Predicate::and without the flattening loop
Predicate_and_noFlatten(predicates) ==
    IF Len(predicates) = 1 THEN predicates[1] ELSE PExpression("AND", predicates)

\* Predicate::and without the single-child return
Predicate_and_noCollapse(predicates) == PExpression("AND", Flatten(predicates, "AND"))

\* Predicate::and
Predicate_and(predicates) ==
    LET flat == Flatten(predicates, "AND") IN
    IF Len(flat) = 1 THEN flat[1] ELSE PExpression("AND", flat)

\* Predicate::or
Predicate_or(predicates) ==
    LET flat == Flatten(predicates, "OR") IN
    IF Len(flat) = 1 THEN flat[1] ELSE PExpression("OR", flat)

\* Predicate::not
Predicate_not(predicate) == PNegated(predicate)

-----------------------------------------------------------------------------
(* backward_solver: substitute, extract_predicate, solve_backward          *)

\* the count of a known value in substitute's PropCount arm
\* substitute's count that takes a null for one value
KnownCount_nullOne(known_val) ==
    CASE known_val.t = "Arr" -> Len(known_val.a)
      [] OTHER -> 1

KnownCount(known_val) ==
    CASE known_val.t = "Arr" -> Len(known_val.a)
      [] known_val.t = "Null" -> 0
      [] OTHER -> 1

\* min.map_or(true, |m| count >= m) && max.map_or(true, |m| count <= m)
CountOk(count, min, max) ==
    /\ (min = None \/ count >= min.some)
    /\ (max = None \/ count <= max.some)

\* an unknown non-target field taken as unsatisfiable instead of unconstrained
UnknownField_false == SBool(FALSE)

\* substitute's answer for a leaf on an unknown field that is not the target:
\* "treat as unconstrained (true) to be conservative"
UnknownField == SBool(TRUE)

RECURSIVE substitute(_, _, _)

\* backward_solver::substitute
substitute(ast, known_fields, target_field) ==
    CASE ast.a = "And" ->
            SAnd([i \in 1..Len(ast.children) |->
                    substitute(ast.children[i], known_fields, target_field)])
      [] ast.a = "Or" ->
            SOr([i \in 1..Len(ast.children) |->
                    substitute(ast.children[i], known_fields, target_field)])
      [] ast.a = "Not" -> SNot(substitute(ast.child, known_fields, target_field))
      [] ast.a = "PropEquals" ->
            LET ln == local_name(ast.path) IN
            IF ln # None
            THEN IF ln.some \in DOMAIN known_fields
                 THEN SBool(values_equal_json(known_fields[ln.some], ast.value))
                 ELSE IF ln.some = target_field
                      THEN FCEquals(ln.some, ast.value)
                      ELSE UnknownField
            ELSE SBool(TRUE)
      [] ast.a = "PropIn" ->
            LET ln == local_name(ast.path) IN
            IF ln # None
            THEN IF ln.some \in DOMAIN known_fields
                 THEN SBool(\E i \in 1..Len(ast.values) :
                                values_equal_json(known_fields[ln.some], ast.values[i]))
                 ELSE IF ln.some = target_field
                      THEN FCIn(ln.some, ast.values)
                      ELSE UnknownField
            ELSE SBool(TRUE)
      [] ast.a = "PropCount" ->
            LET ln == local_name(ast.path) IN
            IF ln # None
            THEN IF ln.some \in DOMAIN known_fields
                 THEN SBool(CountOk(KnownCount(known_fields[ln.some]), ast.min, ast.max))
                 ELSE SBool(TRUE)
            ELSE SBool(TRUE)
      [] OTHER -> SBool(TRUE)

\* Iterator::filter_map over a sequence of Option values
RECURSIVE FilterSome(_)
FilterSome(opts) ==
    IF opts = << >> THEN << >>
    ELSE (IF Head(opts) = None THEN << >> ELSE <<Head(opts).some>>) \o FilterSome(Tail(opts))

\* backward_solver::extract_predicate
RECURSIVE extract_predicate(_, _)
extract_predicate(n, target_field) ==
    CASE n.k = "Bool" ->
            IF n.b THEN None ELSE Some(Predicate_simple(target_field, OP_IN, JArr(<< >>)))
      [] n.k = "FC" ->
            IF n.field = target_field
            THEN Some(CASE n.kind = "Equals" -> Predicate_simple(n.field, OP_EQUALS, n.v)
                        [] n.kind = "In" -> Predicate_simple(n.field, OP_IN, JArr(n.vs))
                        [] n.kind = "NotEquals" ->
                              Predicate_not(Predicate_simple(n.field, OP_EQUALS, n.v)))
            ELSE None
      [] n.k = "Not" ->
            LET inner_pred == extract_predicate(n.c, target_field) IN
            IF inner_pred = None THEN None ELSE Some(Predicate_not(inner_pred.some))
      [] n.k = "And" ->
            LET preds == FilterSome([i \in 1..Len(n.cs) |->
                                        extract_predicate(n.cs[i], target_field)])
            IN  CASE Len(preds) = 0 -> None
                  [] Len(preds) = 1 -> Some(preds[1])
                  [] OTHER -> Some(Predicate_and(preds))
      [] n.k = "Or" ->
            LET preds == FilterSome([i \in 1..Len(n.cs) |->
                                        extract_predicate(n.cs[i], target_field)])
            IN  CASE Len(preds) = 0 -> None
                  [] Len(preds) = 1 -> Some(preds[1])
                  [] OTHER -> Some(Predicate_or(preds))

\* solve_backward that looks for the target before it looks into known
solve_backward_targetFirst(ast, known_fields, target_field) ==
    extract_predicate(
        simplify(substitute(ast,
                            [f \in (DOMAIN known_fields) \ {target_field} |-> known_fields[f]],
                            target_field)),
        target_field)

\* backward_solver::solve_backward
solve_backward(ast, known_fields, target_field) ==
    extract_predicate(simplify(substitute(ast, known_fields, target_field)), target_field)

-----------------------------------------------------------------------------
(* The backward solver on a forbidden-pairs rule                           *)
(*   Not(Or(And(PropEquals(P, p_i), PropEquals(S, s_i)) for i = 1..n)).    *)

MaxPairs == 3

IRI_P == <<"h", ":", "/", "/", "d", "/", "p">>
IRI_S == <<"h", ":", "/", "/", "d", "#", "s">>

V_true == JStr(<<"t", "r", "u", "e">>)

PrimaryValues == { V_a, V_b, JBool(TRUE), V_true }
SecondaryValues == { V_a, V_b }
KnownPrimaryValues == { V_a, JBool(TRUE), V_true, JNum(1) }

\* tests::status_combo_ast, for an arbitrary list of forbidden pairs
ForbiddenPairsRule(ps) ==
    ANot(AOr([i \in 1..Len(ps) |->
                AAnd(<<PropEquals(PIri(IRI_P), ps[i][1]),
                       PropEquals(PIri(IRI_S), ps[i][2])>>)]))

InitSolve ==
    /\ pc = "build"
    /\ pairs = << >>
    /\ known \in {EmptyMap} \cup {[f \in {F_P} |-> v] : v \in KnownPrimaryValues}
    /\ solved = NotRun
    /\ SimplifyIdle /\ PredIdle /\ EvalIdle /\ SetIdle /\ LooseIdle /\ CountIdle /\ ScopeIdle /\ ParseIdle /\ TotalIdle /\ WalkIdle

AddPair ==
    /\ pc = "build"
    /\ Len(pairs) < MaxPairs
    /\ \E p \in PrimaryValues, sv \in SecondaryValues : pairs' = Append(pairs, <<p, sv>>)
    /\ UNCHANGED <<pc, known, solved, simplifyVars, predVars, evalVars, setVars, looseVars, countVars, scopeVars, parseVars, totalVars, walkVars>>

Solve ==
    /\ pc = "build"
    /\ solved' = solve_backward(ForbiddenPairsRule(pairs), known, F_S)
    /\ pc' = "done"
    /\ UNCHANGED <<pairs, known, simplifyVars, predVars, evalVars, setVars, looseVars, countVars, scopeVars, parseVars, totalVars, walkVars>>

NextSolve == AddPair \/ Solve

SpecSolve == InitSolve /\ [][NextSolve]_vars

\* loose equality as the claim states it: structural equality, or a string
\* against the text of a boolean or number
C3_LooselyEqual(x, y) ==
    \/ x = y
    \/ x.t = "Str" /\ y.t = "Bool" /\ x.s = BoolToString(y.b)
    \/ y.t = "Str" /\ x.t = "Bool" /\ y.s = BoolToString(x.b)
    \/ x.t = "Str" /\ y.t = "Num" /\ x.s = NumToString(y.n)
    \/ y.t = "Str" /\ x.t = "Num" /\ y.s = NumToString(x.n)

\* the pairs whose primary is not contradicted by the known map, in rule order
C3_Qualifying ==
    SelectSeq(pairs, LAMBDA pr : F_P \notin DOMAIN known \/ C3_LooselyEqual(pr[1], known[F_P]))

C3_NotEquals(sv) ==
    [p |-> "Negated", operator |-> "NOT",
     predicate |-> [p |-> "Simple", field_id |-> F_S, predicate_type_id |-> OP_EQUALS,
                    value |-> Some(sv)]]

\* C3: on a forbidden-pairs rule with known = {} or {P: p}, solve_backward for
\* the secondary field returns the NOT(equals(S, s_i)) of exactly the pairs
\* whose primary is not contradicted, in rule order, one child per pair: none
\* for no such pair, the bare NOT for one, a single AND otherwise.
C3_ForbiddenPairs ==
    solved # NotRun =>
        LET q == C3_Qualifying IN
        solved = CASE Len(q) = 0 -> None
                   [] Len(q) = 1 -> Some(C3_NotEquals(q[1][2]))
                   [] OTHER -> Some([p |-> "Expression", operator |-> "AND",
                                     predicates |-> [i \in 1..Len(q) |-> C3_NotEquals(q[i][2])]])

\* C3 witness: a known primary rules out one pair, and the remaining pairs
\* share a secondary value that appears twice in the AND.
C3_Witness ==
    /\ solved # NotRun /\ solved # None
    /\ F_P \in DOMAIN known
    /\ Len(C3_Qualifying) < Len(pairs)
    /\ solved.some.p = "Expression"
    /\ Len(solved.some.predicates) = 2
    /\ solved.some.predicates[1] = solved.some.predicates[2]

-----------------------------------------------------------------------------
(* Predicate wire format: #[derive(Serialize, Deserialize)] with           *)
(* #[serde(untagged)], variants tried in declaration order.                *)

STR_AND == <<"A", "N", "D">>
STR_OR == <<"O", "R">>
STR_NOT == <<"N", "O", "T">>

\* LogicalOperator with rename_all = "UPPERCASE"
OperatorName(operator) == IF operator = "AND" THEN STR_AND ELSE STR_OR

\* Serialize for Predicate, as a serde_json::Value
RECURSIVE serialize(_)
serialize(q) ==
    CASE q.p = "Expression" ->
            JObj([operator |-> JStr(OperatorName(q.operator)),
                  predicates |-> JArr([i \in 1..Len(q.predicates) |->
                                          serialize(q.predicates[i])])])
      [] q.p = "Negated" ->
            JObj([operator |-> JStr(STR_NOT), predicate |-> serialize(q.predicate)])
      [] q.p = "Simple" ->
            IF q.value = None   \* skip_serializing_if = "Option::is_none"
            THEN JObj([fieldId |-> JStr(q.field_id),
                       predicateTypeId |-> JStr(q.predicate_type_id)])
            ELSE JObj([fieldId |-> JStr(q.field_id),
                       predicateTypeId |-> JStr(q.predicate_type_id),
                       value |-> q.value.some])

HasKey(j, key) == j.t = "Obj" /\ key \in DOMAIN j.o

\* Deserialize for Option<serde_json::Value>: an absent key and a JSON null
\* both give None
DeserializeOptionValue(j) ==
    IF HasKey(j, "value") /\ j.o.value # JNull THEN Some(j.o.value) ELSE None

\* Deserialize for Predicate (Err is None): Expression shape, then Negated
\* shape, then Simple shape; unknown keys are ignored
RECURSIVE deserialize(_)
deserialize(j) ==
    LET children ==
            IF HasKey(j, "predicates") /\ j.o.predicates.t = "Arr"
            THEN [i \in 1..Len(j.o.predicates.a) |-> deserialize(j.o.predicates.a[i])]
            ELSE << >>
        asExpression ==
            IF /\ HasKey(j, "operator") /\ j.o.operator \in {JStr(STR_AND), JStr(STR_OR)}
               /\ HasKey(j, "predicates") /\ j.o.predicates.t = "Arr"
               /\ \A i \in 1..Len(children) : children[i] # None
            THEN Some(PExpression(IF j.o.operator = JStr(STR_AND) THEN "AND" ELSE "OR",
                                  [i \in 1..Len(children) |-> children[i].some]))
            ELSE None
        asNegated ==
            IF /\ HasKey(j, "operator") /\ j.o.operator = JStr(STR_NOT)
               /\ HasKey(j, "predicate") /\ deserialize(j.o.predicate) # None
            THEN Some(PNegated(deserialize(j.o.predicate).some))
            ELSE None
        asSimple ==
            IF /\ HasKey(j, "fieldId") /\ j.o.fieldId.t = "Str"
               /\ HasKey(j, "predicateTypeId") /\ j.o.predicateTypeId.t = "Str"
            THEN Some(PSimple(j.o.fieldId.s, j.o.predicateTypeId.s, DeserializeOptionValue(j)))
            ELSE None
    IN  IF asExpression # None THEN asExpression
        ELSE IF asNegated # None THEN asNegated
        ELSE asSimple

-----------------------------------------------------------------------------
(* Predicates built through Predicate::simple / simple_no_value / and / or *)
(* / not, then serialized, deserialized and re-combined.                   *)

MaxPredSize == 5

OP_EXISTS == <<"e", "x", "i", "s", "t", "s">>

SimpleValues == { V_a, JNum(42), JBool(TRUE), JNull, JArr(<<V_a, JNull>>) }

PredLeaves ==
    { Predicate_simple(F_S, OP_EQUALS, v) : v \in SimpleValues }
    \cup { Predicate_simple(F_P, OP_IN, JArr(<<V_a, V_b>>)),
           Predicate_simple_no_value(F_S, OP_EXISTS),
           Predicate_and(<< >>), Predicate_or(<< >>) }

PredOperands ==
    { Predicate_simple(F_P, OP_EQUALS, V_b),
      Predicate_and(<<Predicate_simple(F_P, OP_EQUALS, V_a), Predicate_simple(F_S, OP_EQUALS, V_b)>>),
      Predicate_or(<<Predicate_simple(F_P, OP_EQUALS, V_a), Predicate_simple(F_S, OP_EQUALS, V_b)>>),
      Predicate_and(<< >>) }

\* number of Simple leaves and connectives of a predicate
RECURSIVE PSize(_), PSeqSize(_)
PSeqSize(qs) == IF qs = << >> THEN 0 ELSE PSize(Head(qs)) + PSeqSize(Tail(qs))

PSize(q) ==
    CASE q.p = "Negated" -> 1 + PSize(q.predicate)
      [] q.p = "Expression" -> 1 + PSeqSize(q.predicates)
      [] OTHER -> 1

InitPred ==
    /\ pc = "build"
    /\ pred \in PredLeaves
    /\ lastCall = NotRun /\ wire = NotRun /\ back = NotRun /\ single = NotRun
    /\ SimplifyIdle /\ SolveIdle /\ EvalIdle /\ SetIdle /\ LooseIdle /\ CountIdle /\ ScopeIdle /\ ParseIdle /\ TotalIdle /\ WalkIdle

CanCombine == pc = "build" /\ PSize(pred) < MaxPredSize

\* the argument lists a combinator is called with: pred alone, or with one operand
ArgLists == {<<pred>>} \cup {<<pred, q>> : q \in PredOperands} \cup {<<q, pred>> : q \in PredOperands}

CallNot ==
    /\ CanCombine
    /\ pred' = Predicate_not(pred)
    /\ lastCall' = [fn |-> "not", args |-> <<pred>>]
    /\ UNCHANGED <<pc, wire, back, single, simplifyVars, solveVars, evalVars, setVars, looseVars, countVars, scopeVars, parseVars, totalVars, walkVars>>

CallAnd ==
    /\ CanCombine
    /\ \E args \in ArgLists :
          /\ pred' = Predicate_and(args)
          /\ lastCall' = [fn |-> "and", args |-> args]
    /\ UNCHANGED <<pc, wire, back, single, simplifyVars, solveVars, evalVars, setVars, looseVars, countVars, scopeVars, parseVars, totalVars, walkVars>>

CallOr ==
    /\ CanCombine
    /\ \E args \in ArgLists :
          /\ pred' = Predicate_or(args)
          /\ lastCall' = [fn |-> "or", args |-> args]
    /\ UNCHANGED <<pc, wire, back, single, simplifyVars, solveVars, evalVars, setVars, looseVars, countVars, scopeVars, parseVars, totalVars, walkVars>>

\* serde_json::to_value(&pred)
Serialize ==
    /\ pc = "build"
    /\ wire' = serialize(pred)
    /\ pc' = "wire"
    /\ UNCHANGED <<pred, lastCall, back, single, simplifyVars, solveVars, evalVars, setVars, looseVars, countVars, scopeVars, parseVars, totalVars, walkVars>>

\* serde_json::from_value::<Predicate>(wire)
Deserialize ==
    /\ pc = "wire"
    /\ back' = deserialize(wire)
    /\ pc' = "done"
    /\ UNCHANGED <<pred, lastCall, wire, single, simplifyVars, solveVars, evalVars, setVars, looseVars, countVars, scopeVars, parseVars, totalVars, walkVars>>

\* Predicate::and(vec![pred]) and Predicate::or(vec![pred])
WrapSingle ==
    /\ pc = "build"
    /\ single' = [and |-> Predicate_and(<<pred>>), or |-> Predicate_or(<<pred>>)]
    /\ pc' = "done"
    /\ UNCHANGED <<pred, lastCall, wire, back, simplifyVars, solveVars, evalVars, setVars, looseVars, countVars, scopeVars, parseVars, totalVars, walkVars>>

NextPred == CallNot \/ CallAnd \/ CallOr \/ Serialize \/ Deserialize \/ WrapSingle

SpecPred == InitPred /\ [][NextPred]_vars

\* C4: wire round trip: deserializing the serialized JSON of a predicate built
\* through simple / simple_no_value / and / or / not gives that predicate back.
C4_RoundTrip == back # NotRun => back = Some(pred)

\* a predicate with no Simple whose value is Some(null) anywhere in it
RECURSIVE NoNullValue(_)
NoNullValue(q) ==
    CASE q.p = "Simple" -> q.value # Some(JNull)
      [] q.p = "Negated" -> NoNullValue(q.predicate)
      [] q.p = "Expression" -> \A i \in 1..Len(q.predicates) : NoNullValue(q.predicates[i])

\* C4, where it fails: a Simple built with the JSON value null comes back
\* with no value at all, and every other predicate comes back unchanged.
C4_NullValueLost ==
    back # NotRun =>
        /\ back # None
        /\ (back = Some(pred)) <=> NoNullValue(pred)

RECURSIVE NoSameOpChild(_)
NoSameOpChild(q) ==
    CASE q.p = "Negated" -> NoSameOpChild(q.predicate)
      [] q.p = "Expression" ->
            \A i \in 1..Len(q.predicates) :
                /\ ~(q.predicates[i].p = "Expression" /\ q.predicates[i].operator = q.operator)
                /\ NoSameOpChild(q.predicates[i])
      [] OTHER -> TRUE

IsExpr(q, operator) == q.p = "Expression" /\ q.operator = operator

\* the last call was and([and([a, b]), c]) with c not an AND
C5_NestedCall ==
    /\ lastCall # NotRun /\ lastCall.fn = "and" /\ Len(lastCall.args) = 2
    /\ IsExpr(lastCall.args[1], "AND") /\ Len(lastCall.args[1].predicates) = 2
    /\ ~IsExpr(lastCall.args[2], "AND")

\* C5: in a predicate built through the constructors no AND has an AND as a
\* direct child and no OR an OR; and([and([a,b]), c]) is one AND of a, b, c.
C5_Flattening ==
    /\ NoSameOpChild(pred)
    /\ C5_NestedCall =>
          pred = [p |-> "Expression", operator |-> "AND",
                  predicates |-> <<lastCall.args[1].predicates[1],
                                   lastCall.args[1].predicates[2], lastCall.args[2]>>]

\* C5 witness: and([and([a, b]), c]) was called and gave three children.
C5_Witness == C5_NestedCall /\ pred.p = "Expression" /\ Len(pred.predicates) = 3

RECURSIVE NoUnaryExpression(_)
NoUnaryExpression(q) ==
    CASE q.p = "Negated" -> NoUnaryExpression(q.predicate)
      [] q.p = "Expression" ->
            /\ Len(q.predicates) # 1
            /\ \A i \in 1..Len(q.predicates) : NoUnaryExpression(q.predicates[i])
      [] OTHER -> TRUE

\* what an argument contributes once same-operator expressions are opened up
C6_Contribution(q, operator) == IF IsExpr(q, operator) THEN q.predicates ELSE <<q>>

RECURSIVE C6_RemainingCount(_, _)
C6_RemainingCount(args, operator) ==
    IF args = << >> THEN 0
    ELSE Len(C6_Contribution(Head(args), operator)) + C6_RemainingCount(Tail(args), operator)

C6_LastOperator == IF lastCall.fn = "and" THEN "AND" ELSE "OR"

\* the last call was and/or on a list of which exactly one predicate remains
C6_OneRemains ==
    /\ lastCall # NotRun /\ lastCall.fn \in {"and", "or"}
    /\ C6_RemainingCount(lastCall.args, C6_LastOperator) = 1

\* C6: and/or never return a one-child Expression; when exactly one predicate
\* remains after flattening, it is the result; and([x]) = x and or([x]) = x.
C6_SingleChildCollapse ==
    /\ NoUnaryExpression(pred)
    /\ C6_OneRemains =>
          \E i \in 1..Len(lastCall.args) :
              /\ Len(C6_Contribution(lastCall.args[i], C6_LastOperator)) = 1
              /\ pred = C6_Contribution(lastCall.args[i], C6_LastOperator)[1]
    /\ single # NotRun => single.and = pred /\ single.or = pred

\* C6 witness: or([x]) returned x for an x that is itself an AND of several
\* children, and and([x]) / or([x]) were then taken of the result.
C6_Witness ==
    /\ single # NotRun
    /\ C6_OneRemains /\ lastCall.fn = "or"
    /\ IsExpr(pred, "AND") /\ Len(pred.predicates) >= 2

-----------------------------------------------------------------------------
(* forward_eval: evaluate_forward, eval_node, resolve_path, resolve_count, *)
(* values_equal, collect_violation_fields                                  *)

\* forward_eval::values_equal
\* values_equal that coerces only when the first value is the string
values_equal_firstString(a, b) ==
    IF a = b THEN TRUE
    ELSE IF a.t = "Str" THEN
        CASE b.t = "Bool" -> a.s = BoolToString(b.b)
          [] b.t = "Num" -> a.s = NumToString(b.n)
          [] b.t = "Str" -> a.s = b.s
          [] OTHER -> FALSE
    ELSE FALSE

values_equal(a, b) ==
    IF a = b THEN TRUE
    ELSE IF a.t = "Str" THEN
        CASE b.t = "Bool" -> a.s = BoolToString(b.b)
          [] b.t = "Num" -> a.s = NumToString(b.n)
          [] b.t = "Str" -> a.s = b.s
          [] OTHER -> FALSE
    ELSE IF b.t = "Str" THEN
        CASE a.t = "Bool" -> b.s = BoolToString(a.b)
          [] a.t = "Num" -> b.s = NumToString(a.n)
          [] OTHER -> FALSE
    ELSE FALSE

\* serde_json::Value::get(&str): a member of an object, None for anything else
ValueGet(v, key) ==
    IF v.t = "Obj" /\ key \in DOMAIN v.o THEN Some(v.o[key]) ELSE None

\* the local name resolve_path computes for an IRI: as local_name(), but the
\* whole IRI when it has neither `#` nor `/`
ResolveLocal(iri) ==
    IF RSplitOnceTail(iri, "#") # None THEN RSplitOnceTail(iri, "#").some
    ELSE IF RSplitOnceTail(iri, "/") # None THEN RSplitOnceTail(iri, "/").some
    ELSE iri

\* forward_eval::resolve_path
RECURSIVE resolve_path(_, _), ResolveSteps(_, _)

\* resolve_path that follows an inverse path like the path it inverts
resolve_path_followInverse(v, path) ==
    CASE path.pt = "Iri" -> ValueGet(v, ResolveLocal(path.iri))
      [] path.pt = "Sequence" -> ResolveSteps(v, path.steps)
      [] path.pt = "Inverse" -> resolve_path(v, path.path)

resolve_path(v, path) ==
    CASE path.pt = "Iri" -> ValueGet(v, ResolveLocal(path.iri))
      [] path.pt = "Sequence" -> ResolveSteps(v, path.steps)
      [] path.pt = "Inverse" -> None

\* the loop of resolve_path's Sequence arm: current = resolve_path(current, step)?
ResolveSteps(current, steps) ==
    IF steps = << >> THEN Some(current)
    ELSE LET next == resolve_path(current, Head(steps)) IN
         IF next = None THEN None ELSE ResolveSteps(next.some, Tail(steps))

\* forward_eval::resolve_count
resolve_count(v, path) ==
    LET r == resolve_path(v, path) IN
    CASE r = None -> 0
      [] r.some.t = "Null" -> 0
      [] r.some.t = "Arr" -> Len(r.some.a)
      [] OTHER -> 1

\* forward_eval::eval_node
RECURSIVE eval_node(_, _)
eval_node(n, v) ==
    CASE n.a = "And" -> \A i \in 1..Len(n.children) : eval_node(n.children[i], v)
      [] n.a = "Or" -> \E i \in 1..Len(n.children) : eval_node(n.children[i], v)
      [] n.a = "Not" -> ~eval_node(n.child, v)
      [] n.a = "PropEquals" ->
            LET actual == resolve_path(v, n.path) IN
            IF actual = None THEN FALSE ELSE values_equal(actual.some, n.value)
      [] n.a = "PropIn" ->
            LET actual == resolve_path(v, n.path) IN
            IF actual = None THEN FALSE
            ELSE \E i \in 1..Len(n.values) : values_equal(actual.some, n.values[i])
      [] n.a = "PropCount" ->
            LET count == resolve_count(v, n.path) IN
            /\ (n.min = None \/ count >= n.min.some)
            /\ (n.max = None \/ count <= n.max.some)
      [] n.a = "PathEquals" ->
            LET val_a == resolve_path(v, n.path_a)
                val_b == resolve_path(v, n.path_b)
            IN  CASE val_a # None /\ val_b # None -> values_equal(val_a.some, val_b.some)
                  [] val_a = None /\ val_b = None -> TRUE
                  [] OTHER -> FALSE
      [] n.a = "PathDisjoint" ->
            LET val_a == resolve_path(v, n.path_a)
                val_b == resolve_path(v, n.path_b)
            IN  IF val_a # None /\ val_b # None
                THEN ~values_equal(val_a.some, val_b.some)
                ELSE TRUE

\* Option<&str> pushed onto a Vec<String> when it is Some
PushName(opt) == IF opt = None THEN << >> ELSE <<opt.some>>

\* forward_eval::collect_paths (the names pushed, in push order)
RECURSIVE collect_paths(_), CollectChildren(_)
collect_paths(n) ==
    CASE n.a \in {"And", "Or"} -> CollectChildren(n.children)
      [] n.a = "Not" -> collect_paths(n.child)
      [] n.a \in {"PropEquals", "PropIn", "PropCount"} -> PushName(local_name(n.path))
      [] n.a \in {"PathEquals", "PathDisjoint"} ->
            PushName(local_name(n.path_a)) \o PushName(local_name(n.path_b))

CollectChildren(children) ==
    IF children = << >> THEN << >>
    ELSE collect_paths(Head(children)) \o CollectChildren(Tail(children))

\* characters in ascending byte order
Ascii ==
    <<"#", "-", "/", "0", "1", "2", "3", "4", "5", "6", "7", "8", "9", ":", ">",
      "A", "C", "D", "L", "N", "O", "P", "R", "S", "T", "V", "_",
      "a", "b", "c", "d", "e", "f", "g", "h", "i", "j", "k", "l", "m", "n", "o",
      "p", "q", "r", "s", "t", "u", "v", "w", "x", "y", "z">>

CharRank(c) == CHOOSE i \in 1..Len(Ascii) : Ascii[i] = c

\* Ord for str: lexicographic by byte
RECURSIVE StrLess(_, _)
StrLess(x, y) ==
    CASE x = << >> -> y # << >>
      [] y = << >> -> FALSE
      [] Head(x) = Head(y) -> StrLess(Tail(x), Tail(y))
      [] OTHER -> CharRank(Head(x)) < CharRank(Head(y))

\* Vec<String>::sort
RECURSIVE SortStrs(_)
SortStrs(xs) ==
    IF xs = << >> THEN << >>
    ELSE LET pivot == Head(xs)
             rest == Tail(xs)
         IN  SortStrs(SelectSeq(rest, LAMBDA x : StrLess(x, pivot)))
                \o <<pivot>> \o SelectSeq(rest, LAMBDA x : x = pivot)
                \o SortStrs(SelectSeq(rest, LAMBDA x : StrLess(pivot, x)))

\* Vec::dedup: consecutive equal elements collapse to the first
RECURSIVE Dedup(_)
Dedup(xs) ==
    IF Len(xs) <= 1 THEN xs
    ELSE IF xs[1] = xs[2] THEN Dedup(Tail(xs))
    ELSE <<xs[1]>> \o Dedup(Tail(xs))

\* collect_violation_fields without the dedup
collect_violation_fields_noDedup(n, v) == SortStrs(collect_paths(n))

\* forward_eval::collect_violation_fields
collect_violation_fields(n, v) == Dedup(SortStrs(collect_paths(n)))

Violation(fields, message, enforcement_level) ==
    [fields |-> fields, message |-> message, enforcement_level |-> enforcement_level,
     suggested_fix |-> None]

\* forward_eval::evaluate_forward
evaluate_forward(n, v, message, enforcement_level) ==
    IF eval_node(n, v) THEN << >>
    ELSE <<Violation(collect_violation_fields(n, v), message, enforcement_level)>>

-----------------------------------------------------------------------------
(* The forward evaluator on composed ASTs and records.                     *)

MaxAstDepth == 2

IRI_Q == <<"q">>
F_Q == <<"q">>
V_c == JStr(<<"c">>)
MSG == <<"m">>

PathP == PIri(IRI_P)
PathS == PIri(IRI_S)

AstLeaves ==
    { PropEquals(PathP, V_a), PropEquals(PathS, V_true), PropIn(PathS, <<V_a, V_b>>),
      PropCount(PathP, Some(1), Some(2)), PathEquals(PathP, PathS),
      PathDisjoint(PSequence(<<PathP, PathS>>), PathP),
      PropEquals(PInverse(PathP), V_a), PropEquals(PIri(IRI_Q), V_a),
      AAnd(<< >>), AOr(<< >>) }

AstWrapLeaves == { PropEquals(PathP, V_b), PropIn(PathS, <<V_a>>) }

\* a record: field name -> value
Rec1(f, v) == JObj([k \in {f} |-> v])
Rec2(f, v, g, w) == JObj([k \in {f, g} |-> IF k = f THEN v ELSE w])

EvalRecords ==
    { JObj(EmptyMap), Rec2(F_P, V_a, F_S, V_a), Rec1(F_S, JBool(TRUE)),
      Rec2(F_P, JArr(<<V_a, V_b, V_c>>), F_S, V_a), Rec2(F_P, JNull, F_Q, V_a),
      Rec1(F_P, Rec1(F_S, V_a)), V_a }

RECURSIVE ADepth(_)
ADepth(n) ==
    CASE n.a = "Not" -> 1 + ADepth(n.child)
      [] n.a \in {"And", "Or"} ->
            IF Len(n.children) = 0 THEN 0
            ELSE 1 + (CHOOSE d \in {ADepth(n.children[i]) : i \in 1..Len(n.children)} :
                        \A i \in 1..Len(n.children) : ADepth(n.children[i]) <= d)
      [] OTHER -> 0

InitEval ==
    /\ pc = "build"
    /\ rule \in AstLeaves
    /\ data \in EvalRecords
    /\ level \in {"Serious", "Error"}
    /\ violations = NotRun
    /\ SimplifyIdle /\ SolveIdle /\ PredIdle /\ SetIdle /\ LooseIdle /\ CountIdle /\ ScopeIdle /\ ParseIdle /\ TotalIdle /\ WalkIdle

CanGrow == pc = "build" /\ ADepth(rule) < MaxAstDepth

GrowNot ==
    /\ CanGrow
    /\ rule' = ANot(rule)
    /\ UNCHANGED <<pc, data, level, violations, simplifyVars, solveVars, predVars, setVars, looseVars, countVars, scopeVars, parseVars, totalVars, walkVars>>

GrowAnd ==
    /\ CanGrow
    /\ \/ rule' = AAnd(<<rule>>)
       \/ \E l \in AstWrapLeaves : rule' \in {AAnd(<<rule, l>>), AAnd(<<l, rule>>)}
    /\ UNCHANGED <<pc, data, level, violations, simplifyVars, solveVars, predVars, setVars, looseVars, countVars, scopeVars, parseVars, totalVars, walkVars>>

GrowOr ==
    /\ CanGrow
    /\ \/ rule' = AOr(<<rule>>)
       \/ \E l \in AstWrapLeaves : rule' \in {AOr(<<rule, l>>), AOr(<<l, rule>>)}
    /\ UNCHANGED <<pc, data, level, violations, simplifyVars, solveVars, predVars, setVars, looseVars, countVars, scopeVars, parseVars, totalVars, walkVars>>

EvaluateForward ==
    /\ pc = "build"
    /\ violations' = Ran(evaluate_forward(rule, data, MSG, level))
    /\ pc' = "done"
    /\ UNCHANGED <<rule, data, level, simplifyVars, solveVars, predVars, setVars, looseVars, countVars, scopeVars, parseVars, totalVars, walkVars>>

NextEval == GrowNot \/ GrowAnd \/ GrowOr \/ EvaluateForward

SpecEval == InitEval /\ [][NextEval]_vars

\* the paths a leaf refers to
C10_LeafPaths(n) ==
    IF n.a \in {"PathEquals", "PathDisjoint"} THEN {n.path_a, n.path_b} ELSE {n.path}

\* the local names of every leaf path anywhere in the AST, as a set
RECURSIVE C10_LocalNames(_)
C10_LocalNames(n) ==
    CASE n.a \in {"And", "Or"} ->
            UNION {C10_LocalNames(n.children[i]) : i \in 1..Len(n.children)}
      [] n.a = "Not" -> C10_LocalNames(n.child)
      [] OTHER -> {local_name(q).some : q \in {r \in C10_LeafPaths(n) : local_name(r) # None}}

\* C10: evaluate_forward returns no violation exactly when the AST holds on
\* the record, and otherwise exactly one, with the given message and level,
\* whose fields are the local names of all leaf paths of the AST, ascending
\* and without duplicates, whatever the record.
C10_ForwardViolation ==
    violations # NotRun =>
        LET vs == violations.ran IN
        /\ (vs = << >>) <=> eval_node(rule, data)
        /\ Len(vs) <= 1
        /\ Len(vs) = 1 =>
              LET fs == vs[1].fields IN
              /\ vs[1].message = MSG
              /\ vs[1].enforcement_level = level
              /\ {fs[i] : i \in 1..Len(fs)} = C10_LocalNames(rule)
              /\ \A i \in 1..(Len(fs) - 1) : StrLess(fs[i], fs[i + 1])

\* C10 witness: a failed rule that names the same field in several leaves and
\* two different fields, on a record that lacks one of them.
C10_Witness ==
    /\ violations # NotRun /\ Len(violations.ran) = 1
    /\ Len(violations.ran[1].fields) = 2
    /\ Len(collect_paths(rule)) > 2
    /\ data.t = "Obj" /\ F_S \notin DOMAIN data.o

-----------------------------------------------------------------------------
(* constraint_set: ConstraintSet::solve, evaluate_predicate_for_value      *)

ShapeResult(shape_uri, message, enforcement_level, affected_fields, introspectable, astOpt, sparql) ==
    [shape_uri |-> shape_uri, message |-> message, enforcement_level |-> enforcement_level,
     affected_fields |-> affected_fields, introspectable |-> introspectable,
     ast |-> astOpt, sparql |-> sparql]

AllowedValues(values) == [fc |-> "AllowedValues", values |-> values]
Query(predicate) == [fc |-> "Query", predicate |-> predicate]

\* a slot of the target class: its name and, when its range is an enum, the
\* outcome of permissible_value_keys(): [ok |-> keys] or [err |-> TRUE]
Slot(name, range_enum) == [name |-> name, range_enum |-> range_enum]

\* values_equal_json_str that compares against string values only
values_equal_json_str_strict(candidate, value) ==
    IF value.t = "Str" THEN candidate = value.s ELSE FALSE

\* constraint_set::values_equal_json_str
values_equal_json_str(candidate, value) ==
    CASE value.t = "Str" -> candidate = value.s
      [] value.t = "Bool" -> candidate = BoolToString(value.b)
      [] value.t = "Num" -> candidate = NumToString(value.n)
      [] OTHER -> FALSE

\* constraint_set::evaluate_predicate_for_value
RECURSIVE evaluate_predicate_for_value(_, _, _)
evaluate_predicate_for_value(q, target_field, candidate) ==
    CASE q.p = "Simple" ->
            IF q.field_id # target_field THEN TRUE
            ELSE CASE q.predicate_type_id = OP_EQUALS ->
                        IF q.value # None THEN values_equal_json_str(candidate, q.value.some)
                        ELSE FALSE
                   [] q.predicate_type_id = OP_NOT_EQUALS ->
                        IF q.value # None THEN ~values_equal_json_str(candidate, q.value.some)
                        ELSE TRUE
                   [] q.predicate_type_id = OP_IN ->
                        IF q.value # None /\ q.value.some.t = "Arr"
                        THEN \E i \in 1..Len(q.value.some.a) :
                                values_equal_json_str(candidate, q.value.some.a[i])
                        ELSE TRUE
                   [] OTHER -> TRUE
      [] q.p = "Negated" -> ~evaluate_predicate_for_value(q.predicate, target_field, candidate)
      [] q.p = "Expression" ->
            IF q.operator = "AND"
            THEN \A i \in 1..Len(q.predicates) :
                    evaluate_predicate_for_value(q.predicates[i], target_field, candidate)
            ELSE \E i \in 1..Len(q.predicates) :
                    evaluate_predicate_for_value(q.predicates[i], target_field, candidate)

\* evaluate that puts each shape's violations in front of the earlier ones
RECURSIVE ConstraintSet_evaluate_prepend(_, _)
ConstraintSet_evaluate_prepend(shs, object_data) ==
    IF shs = << >> THEN << >>
    ELSE ConstraintSet_evaluate_prepend(Tail(shs), object_data) \o
         (IF Head(shs).ast # None
          THEN evaluate_forward(Head(shs).ast.some, object_data, Head(shs).message,
                                Head(shs).enforcement_level)
          ELSE << >>)

\* ConstraintSet::evaluate
RECURSIVE ConstraintSet_evaluate(_, _)
ConstraintSet_evaluate(shs, object_data) ==
    IF shs = << >> THEN << >>
    ELSE (IF Head(shs).ast # None
          THEN evaluate_forward(Head(shs).ast.some, object_data, Head(shs).message,
                                Head(shs).enforcement_level)
          ELSE << >>) \o ConstraintSet_evaluate(Tail(shs), object_data)

\* solve's known map that keeps the target field
KnownFields_keepTarget(obj, target_field) == obj

\* solve: known = obj.clone(); known.remove(target_field)
KnownFields(obj, target_field) == [f \in (DOMAIN obj) \ {target_field} |-> obj[f]]

\* solve: the predicates pushed by the loop over the shapes
SolvePredicates(shs, known_fields, target_field) ==
    FilterSome([i \in 1..Len(shs) |->
                  IF shs[i].ast # None
                  THEN solve_backward(shs[i].ast.some, known_fields, target_field)
                  ELSE None])

\* solve's combination that wraps the predicates in one AND as they are
Combine_nested(predicates) ==
    IF Len(predicates) = 0 THEN None
    ELSE IF Len(predicates) = 1 THEN Some(predicates[1])
    ELSE Some(PExpression("AND", predicates))

\* solve: `combined`, None standing for the early return on no predicate
Combine(predicates) ==
    IF Len(predicates) = 0 THEN None
    ELSE IF Len(predicates) = 1 THEN Some(predicates[1])
    ELSE Some(Predicate_and(predicates))

\* index of the first slot named target_field, 0 when there is none
FirstSlot(slots, target_field) ==
    IF \E i \in 1..Len(slots) : slots[i].name = target_field
    THEN CHOOSE i \in 1..Len(slots) :
            slots[i].name = target_field /\ \A j \in 1..(i - 1) : slots[j].name # target_field
    ELSE 0

\* solve: enum resolution, else Query
Refine(comb, sch, target_field) ==
    IF sch = None THEN Query(comb)
    ELSE LET i == FirstSlot(sch.some, target_field) IN
         IF i # 0 /\ sch.some[i].range_enum # None /\ "ok" \in DOMAIN sch.some[i].range_enum.some
         THEN AllowedValues(SelectSeq(sch.some[i].range_enum.some.ok,
                    LAMBDA candidate : evaluate_predicate_for_value(comb, target_field, candidate)))
         ELSE Query(comb)

\* solve's local `combined` for an object record
SolveCombined(shs, object_data, target_field) ==
    Combine(SolvePredicates(shs, KnownFields(object_data.o, target_field), target_field))

\* ConstraintSet::solve with object_data.as_object().unwrap(): a panic on a
\* record that is not an object
ConstraintSet_solve_unwrap(shs, sch, object_data, target_field) ==
    IF object_data.t # "Obj" THEN [panic |-> TRUE]
    ELSE LET comb == SolveCombined(shs, object_data, target_field) IN
         IF comb = None THEN None ELSE Some(Refine(comb.some, sch, target_field))

\* ConstraintSet::solve
ConstraintSet_solve(shs, sch, object_data, target_field) ==
    IF object_data.t # "Obj" THEN None
    ELSE LET comb == SolveCombined(shs, object_data, target_field) IN
         IF comb = None THEN None ELSE Some(Refine(comb.some, sch, target_field))

-----------------------------------------------------------------------------
(* Specification of ConstraintSet::solve over a small registry of shapes.   *)

MaxShapes == 2

S_true == <<"t", "r", "u", "e">>
S_42 == <<"4", "2">>
URI == <<"u">>
SPARQL_TEXT == <<"q">>

AstShape(a) == ShapeResult(URI, MSG, "Serious", << >>, TRUE, Some(a), None)

\* a shape that carries only a SPARQL query
SparqlShape == ShapeResult(URI, MSG, "Serious", << >>, FALSE, None, Some(SPARQL_TEXT))

\* a shape with neither an AST nor a SPARQL query
DegenerateShape == ShapeResult(URI, MSG, "Serious", << >>, FALSE, None, None)

MSG_2 == <<"n">>

ShapeCatalogue ==
    { AstShape(ForbiddenPairsRule(<< <<V_a, V_a>>, <<V_a, V_b>>, <<V_b, V_a>> >>)),
      AstShape(PropIn(PathS, <<V_a, JBool(TRUE), JNum(42)>>)),
      AstShape(ANot(PropEquals(PathS, V_c))),
      AstShape(AOr(<<PropEquals(PathP, V_a), PropEquals(PathS, V_b)>>)),
      AstShape(AAnd(<<PropIn(PathS, <<V_a, V_b, V_c>>), ANot(PropEquals(PathS, V_b))>>)),
      AstShape(PropEquals(PathP, V_a)),
      ShapeResult(URI, MSG_2, "Error", << >>, TRUE, Some(PropEquals(PathS, V_b)), None),
      SparqlShape, DegenerateShape }

SetRecords ==
    { JObj(EmptyMap), Rec1(F_P, V_a), Rec1(F_S, V_b),
      Rec2(F_P, V_a, F_S, V_a), Rec2(F_P, V_b, F_S, V_c), V_a }

EnumKeys == <<<<"a">>, <<"b">>, <<"c">>, S_true, S_42>>

Schemas ==
    { None,
      Some(<<Slot(F_P, None), Slot(F_S, Some([ok |-> EnumKeys]))>>),
      Some(<<Slot(F_S, None)>>),
      Some(<<Slot(F_S, Some([err |-> TRUE]))>>),
      Some(<<Slot(F_P, Some([ok |-> <<<<"b">>, <<"a">>>>])), Slot(F_S, None)>>) }

VariantValues == {V_a, V_c, JBool(TRUE)}

Candidates == {<<"a">>, <<"b">>, S_true, S_42}

ProbeLeaves ==
    { Predicate_simple(F_S, OP_EQUALS, V_a),
      Predicate_simple(F_S, OP_EQUALS, JBool(TRUE)),
      Predicate_simple(F_S, OP_EQUALS, JNum(42)),
      Predicate_simple(F_S, OP_EQUALS, JNull),
      Predicate_simple_no_value(F_S, OP_EQUALS),
      Predicate_simple(F_S, OP_IN, JArr(<<V_b, JNum(42)>>)),
      Predicate_simple(F_S, OP_IN, JArr(<< >>)),
      Predicate_simple(F_S, OP_IN, V_a),
      Predicate_simple(F_S, OP_NOT_EQUALS, V_a),
      Predicate_simple_no_value(F_S, OP_EXISTS),
      Predicate_simple(F_P, OP_EQUALS, V_b) }

ProbePredicates ==
    ProbeLeaves
    \cup { PNegated(l) : l \in ProbeLeaves }
    \cup { PExpression(o, <<l, Predicate_simple(F_S, OP_EQUALS, V_a)>>) :
              o \in {"AND", "OR"}, l \in ProbeLeaves }
    \cup { PExpression("AND", << >>), PExpression("OR", << >>) }

InitSet ==
    /\ pc = "build"
    /\ shapes = << >>
    /\ schema \in Schemas
    /\ record \in SetRecords
    /\ target \in {F_P, F_S}
    /\ combined = NotRun /\ result = NotRun /\ variant = NotRun
    /\ variantResult = NotRun /\ probe = NotRun /\ evaluated = NotRun
    /\ SimplifyIdle /\ SolveIdle /\ PredIdle /\ EvalIdle /\ LooseIdle /\ CountIdle /\ ScopeIdle /\ ParseIdle /\ TotalIdle /\ WalkIdle

\* ConstraintSet::from_json: one more shape in the loaded array
AddShape ==
    /\ pc = "build"
    /\ Len(shapes) < MaxShapes
    /\ \E sh \in ShapeCatalogue : shapes' = Append(shapes, sh)
    /\ UNCHANGED <<pc, schema, record, target, combined, result, variant, variantResult,
                   probe, evaluated, simplifyVars, solveVars, predVars,
                   evalVars, looseVars, countVars, scopeVars, parseVars, totalVars, walkVars>>

\* solve(record, target)
SolveSet ==
    /\ pc = "build"
    /\ combined' = IF record.t = "Obj" THEN SolveCombined(shapes, record, target) ELSE None
    /\ result' = ConstraintSet_solve(shapes, schema, record, target)
    /\ pc' = "solved"
    /\ UNCHANGED <<shapes, schema, record, target, variant, variantResult, probe,
                   evaluated, simplifyVars, solveVars, predVars,
                   evalVars, looseVars, countVars, scopeVars, parseVars, totalVars, walkVars>>

\* solve again on a record that differs only in the target field
SolveVariant ==
    /\ pc = "solved"
    /\ record.t = "Obj"
    /\ \E w \in {JObj(KnownFields(record.o, target))}
              \cup { JObj([f \in (DOMAIN record.o) \cup {target} |->
                            IF f = target THEN x ELSE record.o[f]]) : x \in VariantValues } :
          /\ variant' = w
          /\ variantResult' = ConstraintSet_solve(shapes, schema, w, target)
    /\ pc' = "done"
    /\ UNCHANGED <<shapes, schema, record, target, combined, result, probe,
                   evaluated, simplifyVars, solveVars, predVars,
                   evalVars, looseVars, countVars, scopeVars, parseVars, totalVars, walkVars>>

\* one direct call of evaluate_predicate_for_value
Probe ==
    /\ pc = "build"
    /\ shapes = << >>
    /\ \E q \in ProbePredicates, c \in Candidates :
          probe' = [pred |-> q, candidate |-> c,
                    out |-> evaluate_predicate_for_value(q, target, c)]
    /\ pc' = "done"
    /\ UNCHANGED <<shapes, schema, record, target, combined, result, variant, variantResult,
                   evaluated, simplifyVars, solveVars, predVars,
                   evalVars, looseVars, countVars, scopeVars, parseVars, totalVars, walkVars>>

\* evaluate(record)
EvaluateSet ==
    /\ pc = "build"
    /\ evaluated' = Ran(ConstraintSet_evaluate(shapes, record))
    /\ pc' = "done"
    /\ UNCHANGED <<shapes, schema, record, target, combined, result, variant, variantResult,
                   probe, simplifyVars, solveVars, predVars, evalVars, looseVars, countVars, scopeVars, parseVars, totalVars, walkVars>>

NextSet == AddShape \/ SolveSet \/ SolveVariant \/ Probe \/ EvaluateSet

SpecSet == InitSet /\ [][NextSet]_vars

-----------------------------------------------------------------------------
(* Properties of ConstraintSet::solve                                       *)

\* C7: solve(record, target) works on the record with the target field
\* removed: a record that differs from `record` only in the value or the
\* presence of the target field yields the same result.
C7_TargetRemoved == variantResult # NotRun => variantResult = result

\* a record holding s = a is solved for s under the forbidden-pairs rule and
\* still receives the AND of the two negated equalities implied by p = a
C7_Witness ==
    /\ pc = "done" /\ variantResult # NotRun
    /\ target = F_S /\ record = Rec2(F_P, V_a, F_S, V_a) /\ variant # record
    /\ result = Some(Query(PExpression("AND",
                    <<PNegated(Predicate_simple(F_S, OP_EQUALS, V_a)),
                      PNegated(Predicate_simple(F_S, OP_EQUALS, V_b))>>)))

C8_Known == [f \in (DOMAIN record.o) \ {target} |-> record.o[f]]

\* contributions of shapes[1..i], in rule order
RECURSIVE C8_Collect(_)
C8_Collect(i) ==
    IF i = 0 THEN << >>
    ELSE C8_Collect(i - 1) \o
         (IF shapes[i].ast = None THEN << >>
          ELSE LET r == solve_backward(shapes[i].ast.some, C8_Known, target) IN
               IF r = None THEN << >> ELSE <<r.some>>)

\* the contributions with every AND contribution replaced by its children
RECURSIVE C8_Opened(_)
C8_Opened(cs) ==
    IF cs = << >> THEN << >>
    ELSE (IF Head(cs).p = "Expression" /\ Head(cs).operator = "AND"
          THEN Head(cs).predicates ELSE <<Head(cs)>>) \o C8_Opened(Tail(cs))

C8_Expected ==
    LET cs == C8_Collect(Len(shapes)) IN
    IF Len(cs) = 0 THEN None
    ELSE IF Len(cs) = 1 THEN Some(cs[1])
    ELSE Some([p |-> "Expression", operator |-> "AND", predicates |-> C8_Opened(cs)])

\* C8: solve combines the per-rule results: only shapes with an AST are
\* solved; no contribution gives none (whatever the schema); one contribution
\* is the combined predicate itself; several give one AND of the
\* contributions in rule order with AND contributions opened one level.
C8_Combination ==
    (result # NotRun /\ record.t = "Obj") =>
        /\ combined = C8_Expected
        /\ C8_Expected = None => result = None
        /\ C8_Expected # None =>
              /\ result # None
              /\ result.some.fc = "Query" => result.some.predicate = C8_Expected.some

\* two rules contribute, one of them an AND that is opened into the result
C8_Witness ==
    /\ pc = "solved" /\ record.t = "Obj"
    /\ Len(C8_Collect(Len(shapes))) = 2
    /\ \E i \in 1..2 : C8_Collect(Len(shapes))[i].p = "Expression"
    /\ Len(combined.some.predicates) = 3

C9_ClosedEnum ==
    /\ schema # None
    /\ \E i \in 1..Len(schema.some) :
          /\ schema.some[i].name = target
          /\ schema.some[i].range_enum # None
          /\ "ok" \in DOMAIN schema.some[i].range_enum.some

C9_Members ==
    LET i == CHOOSE j \in 1..Len(schema.some) : schema.some[j].name = target
    IN schema.some[i].range_enum.some.ok

\* loose string equality of a candidate with a JSON string, boolean or number
C9_LooseEq(c, v) ==
    \/ v.t = "Str" /\ c = v.s
    \/ v.t = "Bool" /\ c = (IF v.b THEN S_true ELSE <<"f", "a", "l", "s", "e">>)
    \/ v.t = "Num" /\ c = NumToString(v.n)

RECURSIVE C9_Holds(_, _)
C9_Holds(q, c) ==
    CASE q.p = "Simple" ->
            IF q.field_id # target THEN TRUE
            ELSE IF q.predicate_type_id = OP_EQUALS THEN C9_LooseEq(c, q.value.some)
            ELSE IF q.predicate_type_id = OP_IN
                 THEN \E i \in 1..Len(q.value.some.a) : C9_LooseEq(c, q.value.some.a[i])
            ELSE TRUE
      [] q.p = "Negated" -> ~C9_Holds(q.predicate, c)
      [] q.p = "Expression" ->
            IF q.operator = "AND"
            THEN \A i \in 1..Len(q.predicates) : C9_Holds(q.predicates[i], c)
            ELSE \E i \in 1..Len(q.predicates) : C9_Holds(q.predicates[i], c)

\* the predicates the statement speaks about: equals with a value, in with a
\* list, another field, an operator the evaluation does not know
RECURSIVE C9_InScope(_)
C9_InScope(q) ==
    CASE q.p = "Simple" ->
            \/ q.field_id # target
            \/ q.predicate_type_id = OP_EQUALS /\ q.value # None
            \/ q.predicate_type_id = OP_IN /\ q.value # None /\ q.value.some.t = "Arr"
            \/ q.predicate_type_id \notin {OP_EQUALS, OP_IN, OP_NOT_EQUALS}
      [] q.p = "Negated" -> C9_InScope(q.predicate)
      [] q.p = "Expression" -> \A i \in 1..Len(q.predicates) : C9_InScope(q.predicates[i])

\* C9: when the schema reports the target as a closed enumeration and a
\* combined predicate exists, solve returns AllowedValues with exactly the
\* members, in registry order, for which the combined predicate holds
\* (equals/in by loose string equality, Negated negates, AND all, OR any,
\* another field or an unknown operator holds); otherwise Query(combined).
C9_EnumRefinement ==
    /\ (result # NotRun /\ combined # None) =>
          /\ C9_InScope(combined.some)
          /\ result = Some(IF C9_ClosedEnum
                           THEN AllowedValues(SelectSeq(C9_Members,
                                    LAMBDA m : C9_Holds(combined.some, m)))
                           ELSE Query(combined.some))
    /\ (probe # NotRun /\ C9_InScope(probe.pred)) =>
          probe.out = C9_Holds(probe.pred, probe.candidate)

\* an enum target is narrowed to some but not all of its members, one of them
\* matched against a JSON boolean
C9_Witness ==
    /\ pc = "solved" /\ result # None /\ C9_ClosedEnum
    /\ result.some.fc = "AllowedValues"
    /\ Len(result.some.values) \in 2..(Len(C9_Members) - 1)
    /\ \E i \in 1..Len(result.some.values) : result.some.values[i] = S_true
    /\ combined.some.p = "Expression"

\* indices of the shapes that have an AST the record fails, in rule order
C11_Failing ==
    SelectSeq([i \in 1..Len(shapes) |-> i],
              LAMBDA i : shapes[i].ast # None /\ ~eval_node(shapes[i].ast.some, record))

\* C11: evaluate(record) is the concatenation, in rule order, of the forward
\* evaluations of the shapes that have an AST: one violation, with the
\* shape's message and level, per shape whose AST the record fails; shapes
\* without an AST contribute nothing.
C11_EvaluateConcat ==
    evaluated # NotRun =>
        /\ Len(evaluated.ran) = Len(C11_Failing)
        /\ \A k \in 1..Len(C11_Failing) :
              LET sh == shapes[C11_Failing[k]] IN
              evaluated.ran[k] = [fields |-> collect_violation_fields(sh.ast.some, record),
                                  message |-> sh.message,
                                  enforcement_level |-> sh.enforcement_level,
                                  suggested_fix |-> None]

\* two shapes fail with different messages and levels
C11_Witness ==
    /\ evaluated # NotRun /\ Len(evaluated.ran) = 2
    /\ evaluated.ran[1].message # evaluated.ran[2].message
    /\ evaluated.ran[1].enforcement_level = "Error"

\* a shape without an AST sits before a failing shape and contributes nothing
C11_WitnessSkipped ==
    /\ evaluated # NotRun /\ Len(shapes) = 2 /\ shapes[1].ast = None
    /\ Len(evaluated.ran) = 1

-----------------------------------------------------------------------------
(* Specification of the two loose equalities on pairs of JSON values.       *)

MaxNest == 1

LooseLeaves ==
    { JNull, JBool(TRUE), JBool(FALSE), JNum(0), JNum(1), JNum(42), JNum(-1),
      JStr(<<"t", "r", "u", "e">>), JStr(<<"f", "a", "l", "s", "e">>), JStr(<<"1">>),
      JStr(<<"4", "2">>), JStr(<<"-", "1">>), JStr(<<"0">>), JStr(<<"n", "u", "l", "l">>),
      JStr(<< >>), JArr(<< >>), JObj(EmptyMap) }

RECURSIVE JDepth(_)
JDepth(v) ==
    IF v.t = "Arr" /\ v.a # << >> THEN 1 + JDepth(v.a[1])
    ELSE IF v.t = "Obj" /\ DOMAIN v.o # {} THEN 1 + JDepth(v.o[F_P])
    ELSE 0

InitLoose ==
    /\ pc = "build"
    /\ lhs \in LooseLeaves
    /\ rhs \in LooseLeaves
    /\ loose = NotRun
    /\ SimplifyIdle /\ SolveIdle /\ PredIdle /\ EvalIdle /\ SetIdle /\ CountIdle /\ ScopeIdle /\ ParseIdle /\ TotalIdle /\ WalkIdle

\* the first value becomes the only element of an array / field of an object
NestLhs ==
    /\ pc = "build" /\ JDepth(lhs) < MaxNest
    /\ lhs' \in {JArr(<<lhs>>), Rec1(F_P, lhs)}
    /\ UNCHANGED <<pc, rhs, loose, simplifyVars, solveVars, predVars, evalVars, setVars, countVars, scopeVars, parseVars, totalVars, walkVars>>

NestRhs ==
    /\ pc = "build" /\ JDepth(rhs) < MaxNest
    /\ rhs' \in {JArr(<<rhs>>), Rec1(F_P, rhs)}
    /\ UNCHANGED <<pc, lhs, loose, simplifyVars, solveVars, predVars, evalVars, setVars, countVars, scopeVars, parseVars, totalVars, walkVars>>

\* both implementations are called on (lhs, rhs) and on (rhs, lhs)
CompareLoose ==
    /\ pc = "build"
    /\ loose' = [fwd |-> values_equal(lhs, rhs), fwdFlip |-> values_equal(rhs, lhs),
                 bwd |-> values_equal_json(lhs, rhs), bwdFlip |-> values_equal_json(rhs, lhs)]
    /\ pc' = "done"
    /\ UNCHANGED <<lhs, rhs, simplifyVars, solveVars, predVars, evalVars, setVars, countVars, scopeVars, parseVars, totalVars, walkVars>>

NextLoose == NestLhs \/ NestRhs \/ CompareLoose

SpecLoose == InitLoose /\ [][NextLoose]_vars

\* to_string of a JSON boolean or number
C12_Stringified(v) ==
    IF v.t = "Bool" THEN (IF v.b THEN <<"t", "r", "u", "e">> ELSE <<"f", "a", "l", "s", "e">>)
    ELSE NumToString(v.n)

C12_LooselyEqual(a, b) ==
    \/ a = b
    \/ a.t = "Str" /\ b.t \in {"Bool", "Num"} /\ a.s = C12_Stringified(b)
    \/ b.t = "Str" /\ a.t \in {"Bool", "Num"} /\ b.s = C12_Stringified(a)

\* C12: loose equality holds exactly for structurally equal values and for a
\* string against the stringified boolean or number on the other side; two
\* non-string values of different types are never equal; it is symmetric;
\* the evaluator's and the solver's implementations agree on every pair.
C12_LooseEquality ==
    loose # NotRun =>
        /\ loose.fwd = C12_LooselyEqual(lhs, rhs)
        /\ (lhs.t # "Str" /\ rhs.t # "Str" /\ lhs.t # rhs.t) => ~loose.fwd
        /\ loose.fwdFlip = loose.fwd
        /\ loose.bwd = loose.fwd
        /\ loose.bwdFlip = loose.bwd

\* the boolean true on the left is found equal to the string "true" on the right
C12_Witness ==
    /\ loose # NotRun /\ lhs = JBool(TRUE) /\ rhs = JStr(<<"t", "r", "u", "e">>)
    /\ loose.fwd /\ loose.bwd

\* true against 1 is compared and found different
C12_WitnessTrueVsOne ==
    /\ loose # NotRun /\ lhs = JBool(TRUE) /\ rhs = JNum(1) /\ ~loose.fwd

-----------------------------------------------------------------------------
(* Specification of PropCount in the forward evaluator and in substitute.   *)

MaxCount == 4

CountPaths == {PathP, PathS, PIri(IRI_Q), PInverse(PathP)}

CountLimits == {None} \cup {Some(k) : k \in {0, 1, 3}}

CountRecords ==
    { JObj(EmptyMap), Rec1(F_P, JNull), Rec1(F_P, V_a), Rec1(F_P, JBool(FALSE)),
      Rec1(F_P, JObj(EmptyMap)), Rec1(F_P, JArr(<< >>)),
      Rec2(F_S, JArr(<< >>), F_Q, JArr(<< >>)), V_a }

InitCount ==
    /\ pc = "build"
    /\ rule \in {PropCount(path, mn, mx) : path \in CountPaths, mn \in CountLimits, mx \in CountLimits}
    /\ data \in CountRecords
    /\ level = "Serious"
    /\ violations = NotRun
    /\ counted = NotRun
    /\ SimplifyIdle /\ SolveIdle /\ PredIdle /\ SetIdle /\ LooseIdle /\ ScopeIdle /\ ParseIdle /\ TotalIdle /\ WalkIdle

\* one more element in every array field of the record
PushElement ==
    /\ pc = "build"
    /\ data.t = "Obj"
    /\ \E f \in DOMAIN data.o : data.o[f].t = "Arr" /\ Len(data.o[f].a) < MaxCount
    /\ \E e \in {V_a, JNull} :
          data' = JObj([f \in DOMAIN data.o |->
                          IF data.o[f].t = "Arr" THEN JArr(Append(data.o[f].a, e))
                          ELSE data.o[f]])
    /\ UNCHANGED <<pc, rule, level, violations, counted, simplifyVars, solveVars, predVars,
                   setVars, looseVars, scopeVars, parseVars, totalVars, walkVars>>

\* the leaf is evaluated forward and substituted with the whole record known
CountNode ==
    /\ pc = "build"
    /\ \E t \in {F_P, F_S} :
          counted' = [count |-> resolve_count(data, rule.path),
                      holds |-> eval_node(rule, data),
                      subst |-> IF data.t = "Obj" THEN Some(substitute(rule, data.o, t))
                                ELSE None]
    /\ violations' = Ran(evaluate_forward(rule, data, MSG, level))
    /\ pc' = "done"
    /\ UNCHANGED <<rule, data, level, simplifyVars, solveVars, predVars, setVars, looseVars, scopeVars, parseVars, totalVars, walkVars>>

NextCount == PushElement \/ CountNode

SpecCount == InitCount /\ [][NextCount]_vars

\* the record field the leaf's path names, when it has a local name
C13_Field == local_name(rule.path)

C13_Present == C13_Field # None /\ data.t = "Obj" /\ C13_Field.some \in DOMAIN data.o

C13_Count ==
    IF ~C13_Present THEN 0
    ELSE LET v == data.o[C13_Field.some] IN
         IF v.t = "Null" THEN 0 ELSE IF v.t = "Arr" THEN Len(v.a) ELSE 1

\* C13: for a path with a local name, PropCount counts 0 for an absent or
\* null field, the length of an array and 1 for any other value; it holds
\* exactly when the count is within the given min and max (min 1, max 3: 0
\* and 4 fail, 2 passes); substitute gives the same boolean when the field
\* is known.
C13_PropCount ==
    (counted # NotRun /\ C13_Field # None) =>
        /\ counted.count = C13_Count
        /\ counted.holds <=> /\ (rule.min # None => C13_Count >= rule.min.some)
                             /\ (rule.max # None => C13_Count <= rule.max.some)
        /\ (violations.ran = << >>) <=> counted.holds
        /\ (rule.min = Some(1) /\ rule.max = Some(3)) =>
              /\ C13_Count \in {0, 4} => ~counted.holds
              /\ C13_Count = 2 => counted.holds
        /\ C13_Present => counted.subst = Some(SBool(counted.holds))

\* four elements against min 1, max 3: fails forward and in substitute
C13_Witness ==
    /\ counted # NotRun /\ rule = PropCount(PathP, Some(1), Some(3))
    /\ counted.count = 4 /\ ~counted.holds /\ counted.subst = Some(SBool(FALSE))

\* a null field counts 0 in both
C13_WitnessNull ==
    /\ counted # NotRun /\ rule = PropCount(PathP, Some(1), None) /\ data = Rec1(F_P, JNull)
    /\ counted.count = 0 /\ counted.subst = Some(SBool(FALSE))

-----------------------------------------------------------------------------
(* Specification of the forward evaluator on leaves with unresolved paths   *)
(* and on forbidden-pairs rules.                                            *)

MaxPathDepth == 2

RECURSIVE PathDepth(_)
PathDepth(path) ==
    CASE path.pt = "Iri" -> 0
      [] path.pt = "Inverse" -> 1 + PathDepth(path.path)
      [] path.pt = "Sequence" ->
            IF path.steps = << >> THEN 1
            ELSE 1 + PathDepth(path.steps[Len(path.steps)])

LeafPaths == {PathP, PathS, PSequence(<< >>)}

LeafNodes ==
    {PropEquals(q, V_a) : q \in LeafPaths}
    \cup {PropIn(q, <<V_b, V_a>>) : q \in LeafPaths}
    \cup {PropCount(q, mn, None) : q \in LeafPaths, mn \in {None, Some(1)}}
    \cup {PathEquals(q, r) : q \in LeafPaths, r \in {PathS, PInverse(PathP)}}
    \cup {PathDisjoint(q, r) : q \in LeafPaths, r \in {PathS, PInverse(PathP)}}

LeafRecords ==
    { JObj(EmptyMap), Rec1(F_P, V_a), Rec1(F_S, V_a), Rec2(F_P, V_a, F_S, V_a),
      Rec2(F_P, V_a, F_S, V_b), Rec1(F_P, Rec1(F_S, V_a)), V_a }

IsLeaf(n) == n.a \notin {"And", "Or", "Not"}

\* the leaf's (first) path
LeafPath(n) == IF n.a \in {"PathEquals", "PathDisjoint"} THEN n.path_a ELSE n.path

WithLeafPath(n, q) ==
    IF n.a \in {"PathEquals", "PathDisjoint"} THEN [n EXCEPT !.path_a = q]
    ELSE [n EXCEPT !.path = q]

InitLeaf ==
    /\ pc = "build"
    /\ rule \in LeafNodes \cup {ForbiddenPairsRule(<< >>)}
    /\ data \in LeafRecords
    /\ level = "Serious"
    /\ violations = NotRun
    /\ counted = NotRun
    /\ SimplifyIdle /\ SolveIdle /\ PredIdle /\ SetIdle /\ LooseIdle /\ ScopeIdle /\ ParseIdle /\ TotalIdle /\ WalkIdle

\* the leaf's path is inverted or becomes a step of a sequence
ExtendPath ==
    /\ pc = "build" /\ IsLeaf(rule)
    /\ PathDepth(LeafPath(rule)) < MaxPathDepth
    /\ \E q \in { PInverse(LeafPath(rule)), PSequence(<<LeafPath(rule)>>),
                  PSequence(<<PathP, LeafPath(rule)>>) } :
          rule' = WithLeafPath(rule, q)
    /\ UNCHANGED <<pc, data, level, violations, counted, simplifyVars, solveVars, predVars,
                   setVars, looseVars, scopeVars, parseVars, totalVars, walkVars>>

\* one more And branch in the forbidden-pairs rule
AddBranch ==
    /\ pc = "build" /\ rule.a = "Not"
    /\ Len(rule.child.children) < MaxPairs
    /\ \E p \in {V_a, V_b}, sv \in {V_a, V_b} :
          rule' = ANot(AOr(Append(rule.child.children,
                                  AAnd(<<PropEquals(PathP, p), PropEquals(PathS, sv)>>))))
    /\ UNCHANGED <<pc, data, level, violations, counted, simplifyVars, solveVars, predVars,
                   setVars, looseVars, scopeVars, parseVars, totalVars, walkVars>>

EvaluateLeaf ==
    /\ pc = "build"
    /\ violations' = Ran(evaluate_forward(rule, data, MSG, level))
    /\ counted' = [count |-> IF rule.a = "PropCount" THEN resolve_count(data, rule.path) ELSE 0,
                   holds |-> eval_node(rule, data),
                   subst |-> None]
    /\ pc' = "done"
    /\ UNCHANGED <<rule, data, level, simplifyVars, solveVars, predVars, setVars, looseVars, scopeVars, parseVars, totalVars, walkVars>>

NextLeaf == ExtendPath \/ AddBranch \/ EvaluateLeaf

SpecLeaf == InitLeaf /\ [][NextLeaf]_vars

RECURSIVE C14_HasInverse(_)
C14_HasInverse(path) ==
    CASE path.pt = "Inverse" -> TRUE
      [] path.pt = "Sequence" -> \E i \in 1..Len(path.steps) : C14_HasInverse(path.steps[i])
      [] OTHER -> FALSE

C14_FieldAbsent(path) ==
    /\ path.pt = "Iri"
    /\ \/ data.t # "Obj"
       \/ path = PathP /\ F_P \notin DOMAIN data.o
       \/ path = PathS /\ F_S \notin DOMAIN data.o

\* the two ways a path does not resolve: its field is absent from the record,
\* or it contains an Inverse step
C14_Unresolved(path) == C14_FieldAbsent(path) \/ C14_HasInverse(path)

\* C14: a leaf whose path does not resolve: PropEquals and PropIn are false,
\* PropCount counts 0, PathDisjoint is true, PathEquals is true exactly when
\* the other path is unresolved too; a forbidden-pairs rule gives no
\* violation on a record that lacks one field of every And branch.
C14_UnresolvedLeaf ==
    violations # NotRun =>
        /\ (violations.ran = << >>) <=> counted.holds
        /\ (rule.a \in {"PropEquals", "PropIn"} /\ C14_Unresolved(rule.path)) => ~counted.holds
        /\ (rule.a = "PropCount" /\ C14_Unresolved(rule.path)) =>
              /\ counted.count = 0
              /\ counted.holds <=> (rule.min = None \/ rule.min.some = 0)
        /\ (rule.a = "PathDisjoint" /\ (C14_Unresolved(rule.path_a) \/ C14_Unresolved(rule.path_b)))
              => counted.holds
        /\ (rule.a = "PathEquals" /\ C14_Unresolved(rule.path_a)) =>
              (counted.holds <=> resolve_path(data, rule.path_b) = None)
        /\ (rule.a = "PathEquals" /\ C14_Unresolved(rule.path_b)) =>
              (counted.holds <=> resolve_path(data, rule.path_a) = None)
        /\ (rule.a = "Not" /\ (C14_FieldAbsent(PathP) \/ C14_FieldAbsent(PathS)))
              => violations.ran = << >>

\* PathEquals of a sequence with an Inverse step against an Inverse path, on
\* a record that has both fields: both unresolved, so it holds
C14_Witness ==
    /\ violations # NotRun /\ rule.a = "PathEquals"
    /\ rule.path_a = PSequence(<<PathP, PInverse(PathS)>>) /\ rule.path_b = PInverse(PathP)
    /\ data = Rec2(F_P, V_a, F_S, V_a)
    /\ counted.holds

\* a forbidden-pairs rule with a branch p = a on a record holding only p = a
C14_WitnessForbiddenPairs ==
    /\ violations # NotRun /\ rule.a = "Not" /\ Len(rule.child.children) = 2
    /\ rule.child.children[1].children[1].value = V_a
    /\ data = Rec1(F_P, V_a) /\ violations.ran = << >>

\* PathEquals with one side unresolved and the other resolved is false
C14_WitnessOneSided ==
    /\ violations # NotRun /\ rule.a = "PathEquals"
    /\ rule.path_a = PathS /\ rule.path_b = PInverse(PathP)
    /\ data = Rec1(F_S, V_a) /\ ~counted.holds

-----------------------------------------------------------------------------
(* scope_predicate: extract_shared_attribute_joins, derive_scope_predicate  *)

\* char::is_whitespace on the characters used here
IsWhitespace(c) == c \in {" ", "\t", "\n", "\r"}

\* str::trim_end
RECURSIVE TrimEnd(_)
TrimEnd(s) ==
    IF s # << >> /\ IsWhitespace(s[Len(s)]) THEN TrimEnd(SubSeq(s, 1, Len(s) - 1)) ELSE s

\* str::trim_start
RECURSIVE TrimStart(_)
TrimStart(s) == IF s # << >> /\ IsWhitespace(s[1]) THEN TrimStart(Tail(s)) ELSE s

\* str::trim
Trim(s) == TrimStart(TrimEnd(s))

\* str::trim_end_matches(ch)
RECURSIVE TrimEndMatches(_, _)
TrimEndMatches(s, ch) ==
    IF s # << >> /\ s[Len(s)] = ch THEN TrimEndMatches(SubSeq(s, 1, Len(s) - 1), ch) ELSE s

\* str::starts_with
StartsWith(s, prefix) == Len(s) >= Len(prefix) /\ SubSeq(s, 1, Len(prefix)) = prefix

\* index of the first whitespace character of s, Len(s) + 1 when there is none
FirstWhitespace(s) ==
    IF \E i \in 1..Len(s) : IsWhitespace(s[i])
    THEN CHOOSE i \in 1..Len(s) : IsWhitespace(s[i]) /\ \A j \in 1..(i - 1) : ~IsWhitespace(s[j])
    ELSE Len(s) + 1

\* str::split_whitespace().collect()
RECURSIVE SplitWhitespace(_)
SplitWhitespace(s) ==
    LET t == TrimStart(s) IN
    IF t = << >> THEN << >>
    ELSE <<SubSeq(t, 1, FirstWhitespace(t) - 1)>>
            \o SplitWhitespace(SubSeq(t, FirstWhitespace(t), Len(t)))

\* index of the first line feed of s, Len(s) + 1 when there is none
FirstLineFeed(s) ==
    IF \E i \in 1..Len(s) : s[i] = "\n"
    THEN CHOOSE i \in 1..Len(s) : s[i] = "\n" /\ \A j \in 1..(i - 1) : s[j] # "\n"
    ELSE Len(s) + 1

\* a line without its final carriage return
StripCr(l) == IF l # << >> /\ l[Len(l)] = "\r" THEN SubSeq(l, 1, Len(l) - 1) ELSE l

\* str::lines().collect()
RECURSIVE Lines(_)
Lines(s) ==
    IF s = << >> THEN << >>
    ELSE <<StripCr(SubSeq(s, 1, FirstLineFeed(s) - 1))>>
            \o Lines(SubSeq(s, FirstLineFeed(s) + 1, Len(s)))

\* scope_predicate::iri_local_name
iri_local_name(iri) ==
    IF RSplitOnceTail(iri, "#") # None THEN RSplitOnceTail(iri, "#").some
    ELSE IF RSplitOnceTail(iri, "/") # None THEN RSplitOnceTail(iri, "/").some
    ELSE IF RSplitOnceTail(iri, ":") # None THEN RSplitOnceTail(iri, ":").some
    ELSE iri

KW_FILTER == <<"F", "I", "L", "T", "E", "R">>
KW_BIND == <<"B", "I", "N", "D">>
THIS == <<"$", "t", "h", "i", "s">>

\* the binding a line adds: [family, pred, var], or None
LineBinding(line) ==
    LET trimmed == TrimEndMatches(TrimEndMatches(Trim(line), ";"), ".")
        parts == SplitWhitespace(trimmed)
    IN  IF Len(parts) >= 3
           /\ StartsWith(parts[3], <<"?">>)
           /\ ~StartsWith(parts[2], KW_FILTER)
           /\ ~StartsWith(parts[2], KW_BIND)
        THEN IF parts[1] = THIS
             THEN Some([family |-> "this", pred |-> iri_local_name(parts[2]), var |-> parts[3]])
             ELSE IF StartsWith(parts[1], <<"?">>)
             THEN Some([family |-> "other", pred |-> iri_local_name(parts[2]), var |-> parts[3]])
             ELSE None
        ELSE None

\* the bindings of one family, in line order
Bindings(text, family) ==
    SelectSeq(FilterSome([i \in 1..Len(Lines(text)) |-> LineBinding(Lines(text)[i])]),
              LAMBDA b : b.family = family)

\* the nested loop over this_bindings and other_bindings
RECURSIVE SharedPairs(_, _)
SharedPairs(this_bindings, other_bindings) ==
    IF this_bindings = << >> THEN << >>
    ELSE LET b == Head(this_bindings)
             hits == SelectSeq(other_bindings, LAMBDA o : o.pred = b.pred /\ o.var = b.var)
         IN  [i \in 1..Len(hits) |-> b.pred] \o SharedPairs(Tail(this_bindings), other_bindings)

\* extract_shared_attribute_joins without the sort
extract_shared_attribute_joins_unsorted(text) ==
    Dedup(SharedPairs(Bindings(text, "this"), Bindings(text, "other")))

\* scope_predicate::extract_shared_attribute_joins
extract_shared_attribute_joins(text) ==
    Dedup(SortStrs(SharedPairs(Bindings(text, "this"), Bindings(text, "other"))))

\* derive_scope_from_sparql that puts the exclusion of the focus object first
derive_scope_from_sparql_uriFirst(text, focus_data, uri_field) ==
    LET shared_attrs == extract_shared_attribute_joins(text) IN
    IF shared_attrs = << >> THEN None
    ELSE IF uri_field \notin DOMAIN focus_data THEN None
    ELSE IF \E i \in 1..Len(shared_attrs) : shared_attrs[i] \notin DOMAIN focus_data THEN None
    ELSE Some(Predicate_and(
            <<Predicate_not(Predicate_simple(uri_field, OP_EQUALS, focus_data[uri_field]))>>
            \o [i \in 1..Len(shared_attrs) |->
                  Predicate_simple(shared_attrs[i], OP_EQUALS, focus_data[shared_attrs[i]])]))

\* scope_predicate::derive_scope_from_sparql
derive_scope_from_sparql(text, focus_data, uri_field) ==
    LET shared_attrs == extract_shared_attribute_joins(text) IN
    IF shared_attrs = << >> THEN None
    ELSE IF uri_field \notin DOMAIN focus_data THEN None
    ELSE IF \E i \in 1..Len(shared_attrs) : shared_attrs[i] \notin DOMAIN focus_data THEN None
    ELSE Some(Predicate_and(
            [i \in 1..Len(shared_attrs) |->
                  Predicate_simple(shared_attrs[i], OP_EQUALS, focus_data[shared_attrs[i]])]
            \o <<Predicate_not(Predicate_simple(uri_field, OP_EQUALS, focus_data[uri_field]))>>))

\* scope_predicate::derive_scope_from_ast
derive_scope_from_ast(ast, focus_data, uri_field) == None

\* scope_predicate::derive_scope_predicate
derive_scope_predicate(shape, focus_data, uri_field) ==
    IF shape.sparql # None THEN derive_scope_from_sparql(shape.sparql.some, focus_data, uri_field)
    ELSE IF shape.ast # None THEN derive_scope_from_ast(shape.ast.some, focus_data, uri_field)
    ELSE None

-----------------------------------------------------------------------------
(* Specification of scope derivation on SPARQL texts built block by block.  *)

MaxBlocks == 3

SP == <<" ">>
LF == <<"\n">>
DOT == <<".">>
VAR_v == <<"?", "v">>
VAR_w == <<"?", "w">>
SUBJ_o == <<"?", "o">>
SUBJ_p == <<"?", "p">>
SUBJ_x == <<"x", ":", "s">>
LIT_true == <<"t", "r", "u", "e">>
PRED_a == <<"x", ":", "a">>
PRED_a2 == <<"h", ":", "/", "/", "d", "#", "a">>
PRED_b == <<"x", ":", "b">>
PRED_c == KW_BIND \o <<"E", "R", ":", "c">>
F_A == <<"a">>
F_B == <<"b">>
F_C == <<"c">>
F_U == <<"u">>

\* what a line says: subject, predicate, the predicate's local name, object
Triple(subject, predicate, local, object) ==
    [subject |-> subject, predicate |-> predicate, local |-> local, object |-> object]

\* the pieces a query is written from: the text and the triples it spells
Blocks ==
    { [text |-> THIS \o SP \o PRED_a \o SP \o VAR_v \o SP \o DOT,
       triples |-> <<Triple(THIS, PRED_a, F_A, VAR_v)>>],
      [text |-> SUBJ_o \o SP \o PRED_a \o SP \o VAR_v \o SP \o DOT,
       triples |-> <<Triple(SUBJ_o, PRED_a, F_A, VAR_v)>>],
      [text |-> SP \o SP \o THIS \o <<"\t">> \o PRED_b \o SP \o VAR_w \o SP \o <<";">>
                   \o SP \o PRED_a \o SP \o VAR_v \o SP \o DOT,
       triples |-> <<Triple(THIS, PRED_b, F_B, VAR_w)>>],
      [text |-> SUBJ_o \o SP \o PRED_a2 \o SP \o VAR_v \o <<";">> \o LF
                   \o SUBJ_p \o SP \o PRED_b \o SP \o VAR_w,
       triples |-> <<Triple(SUBJ_o, PRED_a2, F_A, VAR_v), Triple(SUBJ_p, PRED_b, F_B, VAR_w)>>],
      [text |-> THIS \o SP \o PRED_b \o SP \o LIT_true \o SP \o DOT \o LF
                   \o SUBJ_o \o SP \o PRED_b \o SP \o LIT_true \o SP \o DOT,
       triples |-> <<Triple(THIS, PRED_b, F_B, LIT_true), Triple(SUBJ_o, PRED_b, F_B, LIT_true)>>],
      [text |-> THIS \o SP \o PRED_c \o SP \o VAR_v \o SP \o DOT \o LF
                   \o SUBJ_o \o SP \o PRED_c \o SP \o VAR_v \o DOT,
       triples |-> <<Triple(THIS, PRED_c, F_C, VAR_v), Triple(SUBJ_o, PRED_c, F_C, VAR_v)>>],
      [text |-> KW_FILTER \o <<"(">> \o SUBJ_o \o SP \o <<"!", "=">> \o SP \o THIS \o <<")", "\r">>
                   \o LF \o SUBJ_x \o SP \o PRED_a \o SP \o VAR_v \o SP \o DOT,
       triples |-> <<Triple(KW_FILTER \o <<"(">> \o SUBJ_o, <<"!", "=">>, <<"!", "=">>,
                            THIS \o <<")">>),
                     Triple(SUBJ_x, PRED_a, F_A, VAR_v)>>],
      [text |-> THIS \o SP \o PRED_a \o SP \o VAR_w \o SP \o DOT \o LF
                   \o SP \o SP \o PRED_b \o SP \o VAR_w \o SP \o DOT,
       triples |-> <<Triple(THIS, PRED_a, F_A, VAR_w)>>] }

FocusRecords ==
    { EmptyMap,
      [f \in {F_U} |-> V_a],
      [f \in {F_A, F_B} |-> V_a],
      [f \in {F_A, F_U} |-> IF f = F_A THEN JNull ELSE V_b],
      [f \in {F_A, F_B, F_U} |-> IF f = F_A THEN V_a ELSE IF f = F_B THEN JNum(42) ELSE V_c] }

InitScope ==
    /\ pc = "build"
    /\ query = << >>
    /\ triples = << >>
    /\ focus = NotRun /\ uriField = NotRun /\ scopeShape = NotRun
    /\ shared = NotRun /\ scoped = NotRun
    /\ SimplifyIdle /\ SolveIdle /\ PredIdle /\ EvalIdle /\ SetIdle /\ LooseIdle /\ CountIdle /\ ParseIdle /\ TotalIdle /\ WalkIdle

\* one more block of lines at the end of the query text
AppendBlock ==
    /\ pc = "build"
    /\ Len(triples) < MaxBlocks
    /\ \E b \in Blocks :
          /\ query' = IF query = << >> THEN b.text ELSE query \o LF \o b.text
          /\ triples' = Append(triples, b.triples)
    /\ UNCHANGED <<pc, focus, uriField, scopeShape, shared, scoped, simplifyVars, solveVars,
                   predVars, evalVars, setVars, looseVars, countVars, parseVars, totalVars, walkVars>>

\* the shape handed to derive_scope_predicate
ScopeShapes(text) ==
    { ShapeResult(URI, MSG, "Serious", << >>, FALSE, None, Some(text)),
      ShapeResult(URI, MSG, "Serious", << >>, FALSE, Some(PathEquals(PathP, PathS)), Some(text)) }
    \cup (IF text = << >> THEN {AstShape(PathEquals(PathP, PathS)), DegenerateShape} ELSE {})

\* derive_scope_predicate(shape, focus, uri_field), and the extraction on its own
DeriveScope ==
    /\ pc = "build"
    /\ \E sh \in ScopeShapes(query), fd \in FocusRecords, u \in {F_U, F_A} :
          /\ scopeShape' = sh
          /\ focus' = fd
          /\ uriField' = u
          /\ scoped' = derive_scope_predicate(sh, fd, u)
    /\ shared' = Ran(extract_shared_attribute_joins(query))
    /\ pc' = "done"
    /\ UNCHANGED <<query, triples, simplifyVars, solveVars, predVars, evalVars, setVars,
                   looseVars, countVars, parseVars, totalVars, walkVars>>

NextScope == AppendBlock \/ DeriveScope

SpecScope == InitScope /\ [][NextScope]_vars

C15_Equals(field, v) == PSimple(field, OP_EQUALS, Some(v))

\* C15: derive_scope_predicate returns none when the shape has no SPARQL
\* query, when the query has no shared attribute, or when the focus record
\* lacks the URI field or a shared attribute; otherwise one AND whose
\* children are equals(attr, focus[attr]) for each shared attribute in
\* sorted order followed by NOT equals(uri_field, focus[uri_field]).
C15_DeriveScope ==
    scoped # NotRun =>
        LET attrs == shared.ran IN
        IF \/ scopeShape.sparql = None
           \/ attrs = << >>
           \/ uriField \notin DOMAIN focus
           \/ \E i \in 1..Len(attrs) : attrs[i] \notin DOMAIN focus
        THEN scoped = None
        ELSE /\ scoped # None
             /\ scoped.some.p = "Expression" /\ scoped.some.operator = "AND"
             /\ Len(scoped.some.predicates) = Len(attrs) + 1
             /\ \A i \in 1..Len(attrs) :
                   scoped.some.predicates[i] = C15_Equals(attrs[i], focus[attrs[i]])
             /\ \A i \in 1..(Len(attrs) - 1) : StrLess(attrs[i], attrs[i + 1])
             /\ scoped.some.predicates[Len(attrs) + 1]
                   = PNegated(C15_Equals(uriField, focus[uriField]))

\* two shared attributes, both in the focus record together with the URI
C15_Witness ==
    /\ scoped # NotRun /\ scoped # None /\ uriField = F_U
    /\ Len(scoped.some.predicates) = 3
    /\ scoped.some.predicates[1].field_id = F_A
    /\ scoped.some.predicates[2].field_id = F_B

\* a shared attribute that the focus record lacks gives none
C15_WitnessMissingAttr ==
    /\ scoped # NotRun /\ scoped = None /\ scopeShape.sparql # None
    /\ shared.ran = <<F_A>> /\ uriField \in DOMAIN focus /\ F_A \notin DOMAIN focus

\* every triple written in the query
C16_Triples == UNION { {triples[i][j] : j \in 1..Len(triples[i])} : i \in 1..Len(triples) }

C16_IsVar(token) == token # << >> /\ token[1] = "?"

C16_IsShared(attr) ==
    \E t1 \in C16_Triples, t2 \in C16_Triples :
        /\ t1.subject = THIS /\ C16_IsVar(t2.subject)
        /\ t1.local = attr /\ t2.local = attr
        /\ C16_IsVar(t1.object) /\ t1.object = t2.object

C16_Ascending(xs) == \A i \in 1..(Len(xs) - 1) : StrLess(xs[i], xs[i + 1])

\* C16: reading the first three tokens of each line as subject, predicate,
\* object, an attribute is in the result exactly when a `$this` line and a
\* line whose subject starts with `?` carry its local name with the same
\* `?`-variable object; the result is sorted and duplicate-free.
C16_SharedExtraction ==
    shared # NotRun =>
        /\ {shared.ran[i] : i \in 1..Len(shared.ran)}
              = {attr \in {t.local : t \in C16_Triples} : C16_IsShared(attr)}
        /\ C16_Ascending(shared.ran)

C16_Keyword(predicate) == StartsWith(predicate, KW_FILTER) \/ StartsWith(predicate, KW_BIND)

\* the same statement with the lines whose predicate token starts with FILTER
\* or BIND left out, which is what the extraction does
C16_SharedExceptKeywordPrefix ==
    shared # NotRun =>
        /\ {shared.ran[i] : i \in 1..Len(shared.ran)}
              = {attr \in {t.local : t \in C16_Triples} :
                    \E t1 \in C16_Triples, t2 \in C16_Triples :
                        /\ t1.subject = THIS /\ C16_IsVar(t2.subject)
                        /\ t1.local = attr /\ t2.local = attr
                        /\ C16_IsVar(t1.object) /\ t1.object = t2.object
                        /\ ~C16_Keyword(t1.predicate) /\ ~C16_Keyword(t2.predicate)}
        /\ C16_Ascending(shared.ran)

\* a is shared through a variable, b is bound to a literal on both sides
C16_ScenarioD ==
    /\ shared # NotRun /\ shared.ran = <<F_A>>
    /\ \E t1 \in C16_Triples, t2 \in C16_Triples :
          /\ t1.subject = THIS /\ t2.subject = SUBJ_o
          /\ t1.local = F_B /\ t2.local = F_B /\ t1.object = LIT_true /\ t2.object = LIT_true

-----------------------------------------------------------------------------
(* ConstraintSet::scope over a small registry of shapes.                    *)

\* scope that combines the per-shape predicates with AND
ConstraintSet_scope_and(shs, focus_data, uri_field) ==
    LET predicates == FilterSome([i \in 1..Len(shs) |->
                                    derive_scope_predicate(shs[i], focus_data, uri_field)])
    IN  IF Len(predicates) = 0 THEN None
        ELSE IF Len(predicates) = 1 THEN Some(predicates[1])
        ELSE Some(Predicate_and(predicates))

\* ConstraintSet::scope
ConstraintSet_scope(shs, focus_data, uri_field) ==
    LET predicates == FilterSome([i \in 1..Len(shs) |->
                                    derive_scope_predicate(shs[i], focus_data, uri_field)])
    IN  IF Len(predicates) = 0 THEN None
        ELSE IF Len(predicates) = 1 THEN Some(predicates[1])
        ELSE Some(Predicate_or(predicates))

TwoLines(pa, va, sb, pb, vb) ==
    THIS \o SP \o pa \o SP \o va \o SP \o DOT \o LF \o sb \o SP \o pb \o SP \o vb \o SP \o DOT

QueryShape(text) == ShapeResult(URI, MSG, "Serious", << >>, FALSE, None, Some(text))

ScopeCatalogue ==
    { QueryShape(TwoLines(PRED_a, VAR_v, SUBJ_o, PRED_a, VAR_v)),
      QueryShape(TwoLines(PRED_b, VAR_w, SUBJ_p, PRED_b, VAR_w)),
      QueryShape(TwoLines(PRED_b, LIT_true, SUBJ_o, PRED_b, LIT_true)),
      AstShape(PathEquals(PathP, PathS)),
      DegenerateShape }

InitScopeSet ==
    /\ pc = "build"
    /\ shapes = << >>
    /\ focus \in FocusRecords
    /\ uriField \in {F_U, F_A}
    /\ scoped = NotRun
    /\ query = NotRun /\ triples = NotRun /\ scopeShape = NotRun /\ shared = NotRun
    /\ schema = None /\ record = NotRun /\ target = << >>
    /\ combined = NotRun /\ result = NotRun /\ variant = NotRun
    /\ variantResult = NotRun /\ probe = NotRun /\ evaluated = NotRun
    /\ SimplifyIdle /\ SolveIdle /\ PredIdle /\ EvalIdle /\ LooseIdle /\ CountIdle /\ ParseIdle /\ TotalIdle /\ WalkIdle

\* ConstraintSet::from_json: one more shape in the loaded array
AddScopeShape ==
    /\ pc = "build"
    /\ Len(shapes) < MaxShapes
    /\ \E sh \in ScopeCatalogue : shapes' = Append(shapes, sh)
    /\ UNCHANGED <<pc, schema, record, target, combined, result, variant, variantResult, probe,
                   evaluated, simplifyVars, solveVars, predVars, evalVars, looseVars,
                   countVars, scopeVars, parseVars, totalVars, walkVars>>

\* scope(focus, uri_field)
ScopeSet ==
    /\ pc = "build"
    /\ scoped' = ConstraintSet_scope(shapes, focus, uriField)
    /\ pc' = "done"
    /\ UNCHANGED <<query, triples, focus, uriField, scopeShape, shared, simplifyVars, solveVars,
                   predVars, evalVars, setVars, looseVars, countVars, parseVars, totalVars, walkVars>>

NextScopeSet == AddScopeShape \/ ScopeSet

SpecScopeSet == InitScopeSet /\ [][NextScopeSet]_vars

\* the scope predicate of shape i on its own
C17_PerRule(i) == derive_scope_predicate(shapes[i], focus, uriField)

\* the shapes that yield a scope predicate, in rule order
C17_Yielding == SelectSeq([i \in 1..Len(shapes) |-> i], LAMBDA i : C17_PerRule(i) # None)

\* C17: scope(focus, uri_field) is none when no shape yields a scope
\* predicate, that predicate when exactly one does, and otherwise one OR of
\* the per-shape predicates in rule order; shapes without a SPARQL query
\* never contribute.
C17_ScopeCombination ==
    (scoped # NotRun /\ scopeShape = NotRun) =>
        /\ \A i \in 1..Len(shapes) : shapes[i].sparql = None => C17_PerRule(i) = None
        /\ Len(C17_Yielding) = 0 => scoped = None
        /\ Len(C17_Yielding) = 1 => scoped = C17_PerRule(C17_Yielding[1])
        /\ Len(C17_Yielding) >= 2 =>
              scoped = Some([p |-> "Expression", operator |-> "OR",
                             predicates |-> [k \in 1..Len(C17_Yielding) |->
                                               C17_PerRule(C17_Yielding[k]).some]])

\* two shapes yield different scope predicates and are combined in rule order
C17_Witness ==
    /\ pc = "done" /\ scopeShape = NotRun /\ scoped # None /\ scoped # NotRun
    /\ scoped.some.operator = "OR" /\ Len(scoped.some.predicates) = 2
    /\ scoped.some.predicates[1].predicates[1].field_id = F_B
    /\ scoped.some.predicates[2].predicates[1].field_id = F_A

\* an AST-only shape next to a yielding shape: the result is the single predicate
C17_WitnessAstOnly ==
    /\ pc = "done" /\ scopeShape = NotRun /\ scoped # None /\ scoped # NotRun
    /\ Len(shapes) = 2 /\ shapes[1].ast # None
    /\ scoped.some.operator = "AND"

-----------------------------------------------------------------------------
(* shacl_parser: TripleStore                                               *)

\* Result<T, E>
Ok(x) == [ok |-> x]
Err(e) == [err |-> e]
IsErr(r) == "err" \in DOMAIN r

\* ParseError: the variant and the values its message is formatted from
Turtle(msg) == [kind |-> "Turtle", msg |-> msg]
UnsupportedConstruct(msg) == [kind |-> "UnsupportedConstruct", msg |-> msg]
MissingField(msg) == [kind |-> "MissingField", msg |-> msg]

\* oxrdf::Term
NamedNode(iri) == [term |-> "NamedNode", v |-> iri]
BlankNode(id) == [term |-> "BlankNode", v |-> id]
Literal(value, lang) == [term |-> "Literal", v |-> value, language |-> lang]

\* the namespace constants, shortened; sh() and a360() append the local name
SH == <<"w", "3", "/", "s", "h", "a", "c", "l", "#">>
ASSET360 == <<"b", "e", "/", "a", "s", "s", "e", "t", "3", "6", "0", "/">>
RDF_NS == <<"w", "3", "/", "r", "d", "f", "#">>
sh(local) == SH \o local
a360(local) == ASSET360 \o local
RDF_TYPE == RDF_NS \o <<"t", "y", "p", "e">>
RDF_FIRST == RDF_NS \o <<"f", "i", "r", "s", "t">>
RDF_REST == RDF_NS \o <<"r", "e", "s", "t">>
RDF_NIL == RDF_NS \o <<"n", "i", "l">>

\* shacl_parser::subject_key applied to a blank node label
BlankKey(id) == <<"_", ":">> \o id

\* shacl_parser::term_key
term_key(t) == IF t.term = "BlankNode" THEN BlankKey(t.v) ELSE t.v

\* shacl_parser::term_str
term_str(t) == IF t.term = "BlankNode" THEN None ELSE Some(t.v)

\* shacl_parser::iri_local_name: after the last `#`, else after the last `/`
parser_iri_local_name(iri) ==
    IF RSplitOnceTail(iri, "#") # None THEN RSplitOnceTail(iri, "#").some
    ELSE IF RSplitOnceTail(iri, "/") # None THEN RSplitOnceTail(iri, "/").some
    ELSE iri

\* what the Turtle reader yields: a triple, or a syntax error
TripleItem(s, p, o) == [s |-> s, p |-> p, o |-> o]
SyntaxError(msg) == [syntax |-> msg]
IsSyntaxError(item) == "syntax" \in DOMAIN item

\* the (predicate, object) pairs of one subject, in document order
RECURSIVE PairsOf(_, _)
PairsOf(items, key) ==
    IF items = << >> THEN << >>
    ELSE IF Head(items).s = key
         THEN <<[p |-> Head(items).p, o |-> Head(items).o]>> \o PairsOf(Tail(items), key)
         ELSE PairsOf(Tail(items), key)

\* TripleStore::parse: the first syntax error ends the parse; otherwise
\* by_subject maps each subject key to its pairs
TripleStore_parse(items) ==
    IF \E i \in 1..Len(items) : IsSyntaxError(items[i])
    THEN LET first == CHOOSE i \in 1..Len(items) :
                        /\ IsSyntaxError(items[i])
                        /\ \A j \in 1..(i - 1) : ~IsSyntaxError(items[j])
         IN  Err(Turtle(items[first].syntax))
    ELSE Ok([key \in {items[i].s : i \in 1..Len(items)} |-> PairsOf(items, key)])

\* the objects of a sequence of pairs
RECURSIVE ObjectsOfPairs(_, _)
ObjectsOfPairs(prs, predicate) ==
    IF prs = << >> THEN << >>
    ELSE IF Head(prs).p = predicate
         THEN <<Head(prs).o>> \o ObjectsOfPairs(Tail(prs), predicate)
         ELSE ObjectsOfPairs(Tail(prs), predicate)

\* TripleStore::objects
objects(store, subject, predicate) ==
    IF subject \in DOMAIN store THEN ObjectsOfPairs(store[subject], predicate) ELSE << >>

\* TripleStore::first_object
first_object(store, subject, predicate) ==
    IF objects(store, subject, predicate) = << >> THEN None
    ELSE Some(objects(store, subject, predicate)[1])

\* TripleStore::first_str
first_str(store, subject, predicate) ==
    IF first_object(store, subject, predicate) = None THEN None
    ELSE term_str(first_object(store, subject, predicate).some)

\* TripleStore::first_literal
first_literal(store, subject, predicate) ==
    IF first_object(store, subject, predicate) = None THEN None
    ELSE IF first_object(store, subject, predicate).some.term = "Literal"
         THEN Some(first_object(store, subject, predicate).some.v)
         ELSE None

\* TripleStore::literal_for_language: exact language, else untagged, else first
literal_for_language(store, subject, predicate, language) ==
    LET literals == SelectSeq(objects(store, subject, predicate),
                              LAMBDA t : t.term = "Literal")
        exact == SelectSeq(literals, LAMBDA l : l.language = Some(language))
        untagged == SelectSeq(literals, LAMBDA l : l.language = None)
    IN  IF literals = << >> THEN None
        ELSE IF exact # << >> THEN Some(exact[1].v)
        ELSE IF untagged # << >> THEN Some(untagged[1].v)
        ELSE Some(literals[1].v)

\* the local names of the predicates of a sequence of pairs
PredicateNames(prs) == [i \in 1..Len(prs) |-> parser_iri_local_name(prs[i].p)]

\* TripleStore::list_predicates
list_predicates(store, subject) ==
    IF subject \in DOMAIN store THEN Dedup(SortStrs(PredicateNames(store[subject]))) ELSE << >>

\* TripleStore::collect_rdf_list
RECURSIVE collect_rdf_list(_, _)
collect_rdf_list(store, head) ==
    LET key == term_key(head) IN
    IF key = RDF_NIL THEN << >>
    ELSE IF first_object(store, key, RDF_FIRST) = None THEN << >>
    ELSE <<first_object(store, key, RDF_FIRST).some>>
            \o (IF first_object(store, key, RDF_REST) = None THEN << >>
                ELSE collect_rdf_list(store, first_object(store, key, RDF_REST).some))

-----------------------------------------------------------------------------
(* shacl_parser: parse_path, parse_property_shape, parse_constraint_node,  *)
(* parse_shape_ast                                                         *)

\* The operators below bind an intermediate result once, as the code does with
\* `let` and `?`, by quantifying over the singleton set that holds it.

\* Iterator<Result<T, E>>::collect::<Result<Vec<T>, E>>: the first error, else all values
CollectResults(rs) ==
    CHOOSE out \in
        { IF \E i \in 1..Len(v) : IsErr(v[i])
          THEN v[CHOOSE i \in 1..Len(v) : IsErr(v[i]) /\ \A j \in 1..(i - 1) : ~IsErr(v[j])]
          ELSE Ok([i \in 1..Len(v) |-> v[i].ok]) : v \in {rs} } : TRUE

IsDigit(c) == c \in {"0", "1", "2", "3", "4", "5", "6", "7", "8", "9"}
DigitValue(c) == CharRank(c) - CharRank("0")
AllDigits(s) == s # << >> /\ \A i \in 1..Len(s) : IsDigit(s[i])

\* the value of a string of decimal digits
RECURSIVE DecimalValue(_)
DecimalValue(s) ==
    IF s = << >> THEN 0
    ELSE 10 * DecimalValue(SubSeq(s, 1, Len(s) - 1)) + DigitValue(s[Len(s)])

\* str::parse::<u32>().ok(): an optional `+` and decimal digits
parse_u32(s) ==
    IF AllDigits(s) THEN Some(DecimalValue(s))
    ELSE IF s # << >> /\ s[1] = "+" /\ AllDigits(Tail(s)) THEN Some(DecimalValue(Tail(s)))
    ELSE None

\* str::parse::<i64>().ok(): an optional sign and decimal digits
parse_i64(s) ==
    IF parse_u32(s) # None THEN parse_u32(s)
    ELSE IF s # << >> /\ s[1] = "-" /\ AllDigits(Tail(s)) THEN Some(0 - DecimalValue(Tail(s)))
    ELSE None

\* shacl_parser::term_to_json_value (on literals without a fractional or exponent form)
term_to_json_value(t) ==
    IF t.term = "Literal"
    THEN IF parse_i64(t.v) # None THEN JNum(parse_i64(t.v).some)
         ELSE IF t.v = <<"t", "r", "u", "e">> THEN JBool(TRUE)
         ELSE IF t.v = <<"f", "a", "l", "s", "e">> THEN JBool(FALSE)
         ELSE JStr(t.v)
    ELSE IF t.term = "NamedNode" THEN JStr(t.v)
    ELSE JStr(BlankKey(t.v))

\* shacl_parser::parse_path
RECURSIVE parse_path(_, _), ParsePaths(_, _)
parse_path(store, term) ==
    CASE term.term = "NamedNode" -> Ok(PIri(term.v))
      [] term.term = "BlankNode" ->
            LET key == BlankKey(term.v)
                inner == first_object(store, key, sh(<<"i", "n", "v", "e", "r", "s", "e", "P", "a", "t", "h">>))
                items == collect_rdf_list(store, term)
            IN  IF inner # None
                THEN CHOOSE out \in {IF IsErr(inner_path) THEN inner_path
                                     ELSE Ok(PInverse(inner_path.ok)) :
                                     inner_path \in {parse_path(store, inner.some)}} : TRUE
                ELSE IF items # << >>
                THEN CHOOSE out \in {IF IsErr(steps) THEN steps ELSE Ok(PSequence(steps.ok)) :
                                     steps \in {CollectResults(ParsePaths(store, items))}} : TRUE
                ELSE Err(UnsupportedConstruct(
                        [what |-> "property path", node |-> key,
                         predicates |-> list_predicates(store, key)]))
      [] OTHER -> Err(UnsupportedConstruct([what |-> "term in path position", term |-> term]))

ParsePaths(store, items) ==
    IF items = << >> THEN << >>
    ELSE <<parse_path(store, Head(items))>> \o ParsePaths(store, Tail(items))

\* the values of an sh:in list
JsonValues(items) == [i \in 1..Len(items) |-> term_to_json_value(items[i])]

\* Option<String>::and_then(|s| s.parse::<u32>().ok())
AndThenParseU32(opt) == IF opt = None THEN None ELSE parse_u32(opt.some)

\* Option<&str>::unwrap_or("(complex path)")
PathName(path) ==
    IF local_name(path) = None THEN <<"(", "c", "o", "m", "p", "l", "e", "x", " ", "p", "a", "t", "h", ")">> ELSE local_name(path).some

\* the second path of a pair constraint, or its error
PairWith(store, path, other_term, kind) ==
    CHOOSE out \in {IF IsErr(other_path) THEN other_path
                    ELSE IF kind = "equals" THEN Ok(PathEquals(path, other_path.ok))
                    ELSE Ok(PathDisjoint(path, other_path.ok)) :
                    other_path \in {parse_path(store, other_term)}} : TRUE

\* parse_property_shape after the path is translated
PropertyConstraint(store, key, path) ==
    LET min_count == AndThenParseU32(first_literal(store, key, sh(<<"m", "i", "n", "C", "o", "u", "n", "t">>)))
        max_count == AndThenParseU32(first_literal(store, key, sh(<<"m", "a", "x", "C", "o", "u", "n", "t">>)))
    IN  IF first_object(store, key, sh(<<"h", "a", "s", "V", "a", "l", "u", "e">>)) # None
        THEN Ok(PropEquals(path,
                    term_to_json_value(first_object(store, key, sh(<<"h", "a", "s", "V", "a", "l", "u", "e">>)).some)))
        ELSE IF first_object(store, key, sh(<<"i", "n">>)) # None
        THEN Ok(PropIn(path,
                    JsonValues(collect_rdf_list(store, first_object(store, key, sh(<<"i", "n">>)).some))))
        ELSE IF min_count # None \/ max_count # None
        THEN Ok(PropCount(path, min_count, max_count))
        ELSE IF first_object(store, key, sh(<<"e", "q", "u", "a", "l", "s">>)) # None
        THEN PairWith(store, path, first_object(store, key, sh(<<"e", "q", "u", "a", "l", "s">>)).some, "equals")
        ELSE IF first_object(store, key, sh(<<"d", "i", "s", "j", "o", "i", "n", "t">>)) # None
        THEN PairWith(store, path, first_object(store, key, sh(<<"d", "i", "s", "j", "o", "i", "n", "t">>)).some, "disjoint")
        ELSE Err(UnsupportedConstruct(
                [what |-> "value constraint", property |-> PathName(path), node |-> key,
                 predicates |-> list_predicates(store, key)]))

\* shacl_parser::parse_property_shape
parse_property_shape(store, key) ==
    LET path_term == first_object(store, key, sh(<<"p", "a", "t", "h">>)) IN
    IF path_term = None
    THEN Err(MissingField([what |-> "sh:path missing on property shape", node |-> key]))
    ELSE CHOOSE out \in {IF IsErr(path) THEN path ELSE PropertyConstraint(store, key, path.ok) :
                         path \in {parse_path(store, path_term.some)}} : TRUE

\* a Result<Vec<ShaclAst>, _> turned into the And or Or over the children
Junction(kind, children) ==
    CHOOSE out \in {IF IsErr(c) THEN c
                    ELSE IF kind = "and" THEN Ok(AAnd(c.ok)) ELSE Ok(AOr(c.ok)) :
                    c \in {children}} : TRUE

\* a Result<ShaclAst, _> turned into its negation
Negation(child) ==
    CHOOSE out \in {IF IsErr(c) THEN c ELSE Ok(ANot(c.ok)) : c \in {child}} : TRUE

\* shacl_parser::parse_constraint_node
RECURSIVE parse_constraint_node(_, _), ParseConstraintNodes(_, _)
parse_constraint_node(store, key) ==
    IF first_object(store, key, sh(<<"n", "o", "t">>)) # None
    THEN Negation(parse_constraint_node(store,
                      term_key(first_object(store, key, sh(<<"n", "o", "t">>)).some)))
    ELSE IF first_object(store, key, sh(<<"a", "n", "d">>)) # None
    THEN Junction("and", CollectResults(ParseConstraintNodes(store,
                      collect_rdf_list(store, first_object(store, key, sh(<<"a", "n", "d">>)).some))))
    ELSE IF first_object(store, key, sh(<<"o", "r">>)) # None
    THEN Junction("or", CollectResults(ParseConstraintNodes(store,
                      collect_rdf_list(store, first_object(store, key, sh(<<"o", "r">>)).some))))
    ELSE IF first_object(store, key, sh(<<"p", "r", "o", "p", "e", "r", "t", "y">>)) # None
    THEN parse_property_shape(store, term_key(first_object(store, key, sh(<<"p", "r", "o", "p", "e", "r", "t", "y">>)).some))
    ELSE IF first_object(store, key, sh(<<"p", "a", "t", "h">>)) # None
    THEN parse_property_shape(store, key)
    ELSE Err(UnsupportedConstruct(
            [what |-> "construct", node |-> key, predicates |-> list_predicates(store, key)]))

ParseConstraintNodes(store, items) ==
    IF items = << >> THEN << >>
    ELSE <<parse_constraint_node(store, term_key(Head(items)))>>
            \o ParseConstraintNodes(store, Tail(items))

\* the constraints parse_shape_ast collects, each with its outcome, in the order
\* the code reaches them: sh:not, sh:and, sh:or, sh:property, sh:equals, sh:disjoint
ShapeConstraints(store, shape_key) ==
    LET nots == objects(store, shape_key, sh(<<"n", "o", "t">>))
        ands == objects(store, shape_key, sh(<<"a", "n", "d">>))
        ors == objects(store, shape_key, sh(<<"o", "r">>))
        props == objects(store, shape_key, sh(<<"p", "r", "o", "p", "e", "r", "t", "y">>))
        path_a == first_object(store, shape_key, sh(<<"p", "a", "t", "h">>))
        eq_b == first_object(store, shape_key, sh(<<"e", "q", "u", "a", "l", "s">>))
        dis_b == first_object(store, shape_key, sh(<<"d", "i", "s", "j", "o", "i", "n", "t">>))
        pair(path_b, kind) ==
            IF path_a = None \/ path_b = None THEN << >>
            ELSE CHOOSE out \in {IF IsErr(first) THEN <<first>>
                                 ELSE <<PairWith(store, first.ok, path_b.some, kind)>> :
                                 first \in {parse_path(store, path_a.some)}} : TRUE
    IN  [i \in 1..Len(nots) |-> Negation(parse_constraint_node(store, term_key(nots[i])))]
        \o [i \in 1..Len(ands) |->
                Junction("and", CollectResults(ParseConstraintNodes(store,
                                                  collect_rdf_list(store, ands[i]))))]
        \o [i \in 1..Len(ors) |->
                Junction("or", CollectResults(ParseConstraintNodes(store,
                                                 collect_rdf_list(store, ors[i]))))]
        \o [i \in 1..Len(props) |-> parse_property_shape(store, term_key(props[i]))]
        \o pair(eq_b, "equals")
        \o pair(dis_b, "disjoint")

\* shacl_parser::parse_shape_ast
parse_shape_ast(store, shape_key) ==
    CHOOSE out \in
        { IF IsErr(constraints) THEN constraints
          ELSE IF Len(constraints.ok) = 0
          THEN Err(MissingField([what |-> "no constraint components found on shape",
                                 node |-> shape_key]))
          ELSE IF Len(constraints.ok) = 1 THEN Ok(constraints.ok[1])
          ELSE Ok(AAnd(constraints.ok)) :
          constraints \in {CollectResults(ShapeConstraints(store, shape_key))} } : TRUE

-----------------------------------------------------------------------------
(* shacl_parser: parse_shacl                                               *)

\* shacl_parser::collect_affected_fields; collect_fields_recursive pushes the
\* names forward_eval::collect_paths pushes
collect_affected_fields(ast) == Dedup(SortStrs(collect_paths(ast)))

\* str::find: the index of the first occurrence of pat in s, 0 when there is none
Find(s, pat) ==
    LET hits == {i \in 1..(Len(s) - Len(pat) + 1) : SubSeq(s, i, i + Len(pat) - 1) = pat}
    IN  IF hits = {} THEN 0 ELSE CHOOSE i \in hits : \A j \in hits : i <= j

\* the name extract_bind_fields_from_sparql pushes for one line, if any; the
\* local name is taken after the last `#`, else `/`, else `:`, else the whole text
BindField(line) ==
    LET trimmed == Trim(line)
        start == Find(trimmed, <<"B", "I", "N", "D", "(">>)
        rest == SubSeq(trimmed, start + 5, Len(trimmed))
        end == Find(rest, <<" ", "A", "S">>)
    IN  IF start = 0 \/ end = 0 THEN << >>
        ELSE <<iri_local_name(Trim(SubSeq(rest, 1, end - 1)))>>

RECURSIVE BindFields(_)
BindFields(ls) == IF ls = << >> THEN << >> ELSE BindField(Head(ls)) \o BindFields(Tail(ls))

\* shacl_parser::extract_bind_fields_from_sparql
extract_bind_fields_from_sparql(sparql) == Dedup(SortStrs(BindFields(Lines(sparql))))

\* the EnforcementLevel of an annotation text; EnforcementLevel::default() is Serious
EnforcementOf(text) ==
    CASE text = <<"c", "r", "i", "t", "i", "c", "a", "l">> -> "Critical"
      [] text = <<"s", "e", "r", "i", "o", "u", "s">> -> "Serious"
      [] text = <<"e", "r", "r", "o", "r">> -> "Error"
      [] text = <<"u", "n", "l", "i", "k", "e", "l", "y">> -> "Unlikely"
      [] OTHER -> "Serious"

\* Option<T>::unwrap_or(d)
UnwrapOr(opt, d) == IF opt = None THEN d ELSE opt.some

\* a ShapeResult with its target_class field
WithTargetClass(shape, target_class) ==
    [f \in DOMAIN shape \cup {"target_class"} |->
        IF f = "target_class" THEN target_class ELSE shape[f]]

\* pairs.iter().any(|(p, o)| p == RDF_TYPE && term_key(o) == sh("NodeShape"))
is_node_shape(prs) ==
    \E i \in 1..Len(prs) : prs[i].p = RDF_TYPE /\ term_key(prs[i].o) = sh(<<"N", "o", "d", "e", "S", "h", "a", "p", "e">>)

\* whether the target class check lets the shape through
TargetMatches(shape_target, target_class) ==
    \/ target_class = << >>
    \/ /\ shape_target # None
       /\ \/ parser_iri_local_name(shape_target.some) = target_class
          \/ shape_target.some = target_class

\* the introspectable annotation read with unwrap_or(false)
introspectable_annotation_defaultFalse(store, subj) ==
    LET ann == first_literal(store, subj, a360(<<"i", "n", "t", "r", "o", "s", "p", "e", "c", "t", "a", "b", "l", "e">>))
    IN  IF ann = None THEN FALSE ELSE ann.some = <<"t", "r", "u", "e">>

\* introspectable_ann in parse_shacl: the annotation is "true", or absent
introspectable_annotation(store, subj) ==
    LET ann == first_literal(store, subj, a360(<<"i", "n", "t", "r", "o", "s", "p", "e", "c", "t", "a", "b", "l", "e">>))
    IN  IF ann = None THEN TRUE ELSE ann.some = <<"t", "r", "u", "e">>

\* one iteration of the loop of parse_shacl on a NodeShape subject:
\* [skip], [push |-> rule] or [ret |-> error]
ParseShape(store, subj, target_class, language) ==
    LET shape_target == first_str(store, subj, sh(<<"t", "a", "r", "g", "e", "t", "C", "l", "a", "s", "s">>))
        target_class_name ==
            IF shape_target = None THEN << >> ELSE parser_iri_local_name(shape_target.some)
        enforcement_level ==
            EnforcementOf(UnwrapOr(first_literal(store, subj, a360(<<"e", "n", "f", "o", "r", "c", "e", "m", "e", "n", "t", "L", "e", "v", "e", "l">>)),
                                   <<"s", "e", "r", "i", "o", "u", "s">>))
        introspectable_ann == introspectable_annotation(store, subj)
        message == UnwrapOr(literal_for_language(store, subj, sh(<<"m", "e", "s", "s", "a", "g", "e">>), language), << >>)
        sparql_node == first_object(store, subj, sh(<<"s", "p", "a", "r", "q", "l">>))
        sparql_key == term_key(sparql_node.some)
        select == UnwrapOr(first_literal(store, sparql_key, sh(<<"s", "e", "l", "e", "c", "t">>)), << >>)
        sparql_message ==
            UnwrapOr(literal_for_language(store, sparql_key, sh(<<"m", "e", "s", "s", "a", "g", "e">>), language), message)
        emit(fields, introspectable, astOpt, sparql, text) ==
            WithTargetClass(ShapeResult(subj, text, enforcement_level, fields, introspectable,
                                        astOpt, sparql),
                            target_class_name)
    IN  IF ~TargetMatches(shape_target, target_class) THEN [skip |-> TRUE]
        ELSE IF sparql_node # None
        THEN [push |-> emit(extract_bind_fields_from_sparql(select), FALSE, None,
                            Some(select), sparql_message)]
        ELSE CHOOSE out \in
                { IF ~IsErr(parsedAst)
                  THEN [push |-> emit(collect_affected_fields(parsedAst.ok), introspectable_ann,
                                      Some(parsedAst.ok), None, message)]
                  ELSE IF introspectable_ann THEN [ret |-> parsedAst.err]
                  ELSE [push |-> emit(<< >>, FALSE, None, None, message)] :
                  parsedAst \in {parse_shape_ast(store, subj)} } : TRUE

\* the loop of parse_shacl over the NodeShape subjects in iteration order
RECURSIVE ParseLoop(_, _, _, _, _)
ParseLoop(store, order, target_class, language, results) ==
    IF order = << >> THEN Ok(results)
    ELSE CHOOSE out \in
            { IF "ret" \in DOMAIN step THEN Err(step.ret)
              ELSE IF "skip" \in DOMAIN step
              THEN ParseLoop(store, Tail(order), target_class, language, results)
              ELSE ParseLoop(store, Tail(order), target_class, language,
                             Append(results, step.push)) :
              step \in {ParseShape(store, Head(order), target_class, language)} } : TRUE

\* the subjects of by_subject the loop does not skip as non-NodeShape
NodeShapeSubjects(store) == {subj \in DOMAIN store : is_node_shape(store[subj])}

\* the orders in which a HashMap can yield the keys in S
IterationOrders(S) ==
    {o \in [1..Cardinality(S) -> S] : \A i, j \in 1..Cardinality(S) : o[i] = o[j] => i = j}

\* shacl_parser::parse_shacl on the items read from the text; order is the order
\* in which by_subject yields the NodeShape subjects
parse_shacl(items, target_class, language, order) ==
    CHOOSE out \in
        { IF IsErr(store) THEN store
          ELSE ParseLoop(store.ok, order, target_class, language, << >>) :
          store \in {TripleStore_parse(items)} } : TRUE

-----------------------------------------------------------------------------
(* Specification SpecParse: parse_shacl on documents of rule blocks        *)

MaxRules == 2

LANG_NL == <<"n", "l">>
LANG_EN == <<"e", "n">>
CLASS_T == <<"T">>
SELECT_TEXT == <<"{", " ", "B", "I", "N", "D", "(", "a", ":", "q", " ", "A", "S", " ", "?", "v", ")", " ", "}", "\n", "B", "I", "N", "D", "(", "<", "b", "e", "/", "a", "s", "s", "e", "t", "3", "6", "0", "/", "p", ">", " ", "A", "S", " ", "?", "w", ")", "\n", "B", "I", "N", "D", "(", "a", ":", "q", " ", "A", "S", " ", "?", "x", ")">>

\* the subject of the i-th rule block and the blank nodes written inside it
RuleIri(i) == a360(<<"R">>) \o NatToString(i)
Blank(i, tag) == BlankNode(NatToString(i) \o tag)
BKey(i, tag) == BlankKey(NatToString(i) \o tag)
Plain(text) == Literal(text, None)

\* `a sh:NodeShape ; sh:targetClass ... ; sh:message ...` in two variants
Headers(i) ==
    { <<TripleItem(RuleIri(i), RDF_TYPE, NamedNode(sh(<<"N", "o", "d", "e", "S", "h", "a", "p", "e">>))),
        TripleItem(RuleIri(i), sh(<<"t", "a", "r", "g", "e", "t", "C", "l", "a", "s", "s">>), NamedNode(a360(CLASS_T))),
        TripleItem(RuleIri(i), sh(<<"m", "e", "s", "s", "a", "g", "e">>), Plain(<<"m">>))>>,
      <<TripleItem(RuleIri(i), RDF_TYPE, NamedNode(sh(<<"N", "o", "d", "e", "S", "h", "a", "p", "e">>))),
        TripleItem(RuleIri(i), sh(<<"t", "a", "r", "g", "e", "t", "C", "l", "a", "s", "s">>), NamedNode(a360(<<"U">>))),
        TripleItem(RuleIri(i), a360(<<"e", "n", "f", "o", "r", "c", "e", "m", "e", "n", "t", "L", "e", "v", "e", "l">>), Plain(<<"e", "r", "r", "o", "r">>)),
        TripleItem(RuleIri(i), sh(<<"m", "e", "s", "s", "a", "g", "e">>), Literal(<<"e">>, Some(LANG_EN))),
        TripleItem(RuleIri(i), sh(<<"m", "e", "s", "s", "a", "g", "e">>), Literal(<<"n">>, Some(LANG_NL)))>> }

\* asset360:introspectable absent, true or false
Annotations(i) ==
    { << >>,
      <<TripleItem(RuleIri(i), a360(<<"i", "n", "t", "r", "o", "s", "p", "e", "c", "t", "a", "b", "l", "e">>), Plain(<<"t", "r", "u", "e">>))>>,
      <<TripleItem(RuleIri(i), a360(<<"i", "n", "t", "r", "o", "s", "p", "e", "c", "t", "a", "b", "l", "e">>), Plain(<<"f", "a", "l", "s", "e">>))>> }

\* sh:property [ sh:path asset360:p ; sh:hasValue "a" ]
HasValueBody(i) ==
    <<TripleItem(RuleIri(i), sh(<<"p", "r", "o", "p", "e", "r", "t", "y">>), Blank(i, <<"p">>)),
      TripleItem(BKey(i, <<"p">>), sh(<<"p", "a", "t", "h">>), NamedNode(a360(<<"p">>))),
      TripleItem(BKey(i, <<"p">>), sh(<<"h", "a", "s", "V", "a", "l", "u", "e">>), Plain(<<"a">>))>>

\* sh:property [ sh:path asset360:p ; sh:pattern "a" ]
PatternBody(i) ==
    <<TripleItem(RuleIri(i), sh(<<"p", "r", "o", "p", "e", "r", "t", "y">>), Blank(i, <<"p">>)),
      TripleItem(BKey(i, <<"p">>), sh(<<"p", "a", "t", "t", "e", "r", "n">>), Plain(<<"a">>)),
      TripleItem(BKey(i, <<"p">>), sh(<<"p", "a", "t", "h">>), NamedNode(a360(<<"p">>)))>>

\* sh:property [ sh:hasValue "a" ]
NoPathBody(i) ==
    <<TripleItem(RuleIri(i), sh(<<"p", "r", "o", "p", "e", "r", "t", "y">>), Blank(i, <<"p">>)),
      TripleItem(BKey(i, <<"p">>), sh(<<"h", "a", "s", "V", "a", "l", "u", "e">>), Plain(<<"a">>))>>

\* sh:not [ sh:class asset360:T ]
ClassBody(i) ==
    <<TripleItem(RuleIri(i), sh(<<"n", "o", "t">>), Blank(i, <<"n">>)),
      TripleItem(BKey(i, <<"n">>), sh(<<"c", "l", "a", "s", "s">>), NamedNode(a360(CLASS_T)))>>

\* sh:or ( [ sh:path ( asset360:p asset360:q ) ; sh:minCount 1 ]
\*         [ sh:path [ sh:inversePath asset360:q ] ; sh:in ( "a" 1 ) ] )
OrBody(i) ==
    <<TripleItem(RuleIri(i), sh(<<"o", "r">>), Blank(i, <<"o">>)),
      TripleItem(BKey(i, <<"o">>), RDF_FIRST, Blank(i, <<"c">>)),
      TripleItem(BKey(i, <<"o">>), RDF_REST, Blank(i, <<"r">>)),
      TripleItem(BKey(i, <<"r">>), RDF_FIRST, Blank(i, <<"d">>)),
      TripleItem(BKey(i, <<"r">>), RDF_REST, NamedNode(RDF_NIL)),
      TripleItem(BKey(i, <<"c">>), sh(<<"p", "a", "t", "h">>), Blank(i, <<"s">>)),
      TripleItem(BKey(i, <<"s">>), RDF_FIRST, NamedNode(a360(<<"p">>))),
      TripleItem(BKey(i, <<"s">>), RDF_REST, Blank(i, <<"t">>)),
      TripleItem(BKey(i, <<"t">>), RDF_FIRST, NamedNode(a360(<<"q">>))),
      TripleItem(BKey(i, <<"t">>), RDF_REST, NamedNode(RDF_NIL)),
      TripleItem(BKey(i, <<"c">>), sh(<<"m", "i", "n", "C", "o", "u", "n", "t">>), Plain(<<"1">>)),
      TripleItem(BKey(i, <<"d">>), sh(<<"p", "a", "t", "h">>), Blank(i, <<"i">>)),
      TripleItem(BKey(i, <<"i">>), sh(<<"i", "n", "v", "e", "r", "s", "e", "P", "a", "t", "h">>), NamedNode(a360(<<"q">>))),
      TripleItem(BKey(i, <<"d">>), sh(<<"i", "n">>), Blank(i, <<"l">>)),
      TripleItem(BKey(i, <<"l">>), RDF_FIRST, Plain(<<"a">>)),
      TripleItem(BKey(i, <<"l">>), RDF_REST, Blank(i, <<"m">>)),
      TripleItem(BKey(i, <<"m">>), RDF_FIRST, Plain(<<"1">>)),
      TripleItem(BKey(i, <<"m">>), RDF_REST, NamedNode(RDF_NIL))>>

\* sh:sparql [ sh:select "..." ], with or without a message of its own
SparqlBody(i, own_message) ==
    <<TripleItem(RuleIri(i), sh(<<"s", "p", "a", "r", "q", "l">>), Blank(i, <<"q">>)),
      TripleItem(BKey(i, <<"q">>), sh(<<"s", "e", "l", "e", "c", "t">>), Plain(SELECT_TEXT))>>
    \o (IF own_message THEN <<TripleItem(BKey(i, <<"q">>), sh(<<"m", "e", "s", "s", "a", "g", "e">>), Plain(<<"s">>))>>
        ELSE << >>)

\* a query whose BIND patterns name their IRIs without angle brackets
SELECT_PREFIXED ==
    <<"S", "E", "L", "E", "C", "T", " ", "$", "t", "h", "i", "s", "\n", " ", " ", "{", " ", "B", "I", "N", "D", "(", "a", ":", "q", " ", "A", "S", " ", "?", "v", ")", " ", "}", "\n", "B", "I", "N", "D", "(", "b", "e", "/", "a", "s", "s", "e", "t", "3", "6", "0", "/", "p", " ", "A", "S", " ", "?", "w", ")", "\n", "B", "I", "N", "D", "(", "x", "#", "q", " ", "A", "S", " ", "?", "x", ")">>

\* sh:sparql [ sh:select "..." ] with that query
PrefixedBody(i) ==
    <<TripleItem(RuleIri(i), sh(<<"s", "p", "a", "r", "q", "l">>), Blank(i, <<"q">>)),
      TripleItem(BKey(i, <<"q">>), sh(<<"s", "e", "l", "e", "c", "t">>), Plain(SELECT_PREFIXED))>>

\* the constraint parts a rule block can have
Bodies(i) ==
    { << >>, HasValueBody(i), PatternBody(i), NoPathBody(i), ClassBody(i), OrBody(i),
      HasValueBody(i) \o ClassBody(i),
      SparqlBody(i, TRUE), SparqlBody(i, FALSE) \o HasValueBody(i),
      SparqlBody(i, FALSE) \o PatternBody(i), PrefixedBody(i) }

\* the i-th block of a document: a rule, or text the Turtle reader rejects
RuleBlocks(i) ==
    {h \o a \o b : h \in Headers(i), a \in Annotations(i), b \in Bodies(i)}
        \cup {<<SyntaxError(<<"x">>)>>}

\* the items of the whole document, in document order
RECURSIVE TurtleItems(_)
TurtleItems(blocks) ==
    IF blocks = << >> THEN << >> ELSE Head(blocks) \o TurtleItems(Tail(blocks))

InitParse ==
    /\ pc = "build"
    /\ ttl = << >>
    /\ classFilter \in {<< >>, CLASS_T}
    /\ preferred \in {<< >>, LANG_NL}
    /\ parsed = NotRun
    /\ SimplifyIdle /\ SolveIdle /\ PredIdle /\ EvalIdle /\ SetIdle /\ LooseIdle /\ CountIdle
    /\ ScopeIdle /\ TotalIdle /\ WalkIdle

\* one more rule block in the text
AppendRule ==
    /\ pc = "build"
    /\ Len(ttl) < MaxRules
    /\ \E block \in RuleBlocks(Len(ttl) + 1) : ttl' = Append(ttl, block)
    /\ UNCHANGED <<pc, classFilter, preferred, parsed, simplifyVars, solveVars, predVars,
                   evalVars, setVars, looseVars, countVars, scopeVars, totalVars, walkVars>>

\* the orders in which by_subject can yield the NodeShape subjects of the text
ParseOrders(items) ==
    IF IsErr(TripleStore_parse(items)) THEN {<< >>}
    ELSE IterationOrders(NodeShapeSubjects(TripleStore_parse(items).ok))

\* parse_shacl(ttl, target_class, language)
Parse ==
    /\ pc = "build"
    /\ \E order \in ParseOrders(TurtleItems(ttl)) :
          parsed' = parse_shacl(TurtleItems(ttl), classFilter, preferred, order)
    /\ pc' = "done"
    /\ UNCHANGED <<ttl, classFilter, preferred, simplifyVars, solveVars, predVars, evalVars,
                   setVars, looseVars, countVars, scopeVars, totalVars, walkVars>>

NextParse == AppendRule \/ Parse

SpecParse == InitParse /\ [][NextParse]_vars

\* the store of the text, when the text has no syntax error
C18_Store == TripleStore_parse(TurtleItems(ttl)).ok

C18_WellFormed == \A i \in 1..Len(ttl) : \A k \in 1..Len(ttl[i]) : ~IsSyntaxError(ttl[i][k])

\* rule block i writes `asset360:introspectable text`
C18_Annotated(i, text) ==
    \E k \in 1..Len(ttl[i]) :
        ttl[i][k] = TripleItem(RuleIri(i), a360(<<"i", "n", "t", "r", "o", "s", "p", "e", "c", "t", "a", "b", "l", "e">>), Plain(text))

\* rule block i has an sh:sparql node
C18_HasQuery(i) ==
    \E k \in 1..Len(ttl[i]) : ttl[i][k].s = RuleIri(i) /\ ttl[i][k].p = sh(<<"s", "p", "a", "r", "q", "l">>)

\* rule block i passes the class filter
C18_InClass(i) ==
    \/ classFilter = << >>
    \/ \E k \in 1..Len(ttl[i]) :
          ttl[i][k] = TripleItem(RuleIri(i), sh(<<"t", "a", "r", "g", "e", "t", "C", "l", "a", "s", "s">>), NamedNode(a360(classFilter)))

\* the rules whose constraints are translated, and the outcome of the translation
C18_Translated == {i \in 1..Len(ttl) : C18_InClass(i) /\ ~C18_HasQuery(i)}
C18_Translation(i) == parse_shape_ast(C18_Store, RuleIri(i))
C18_Fails(i, kind) == IsErr(C18_Translation(i)) /\ C18_Translation(i).err.kind = kind

\* the rules whose translation fails while they are introspectable (true or absent)
C18_Faulty ==
    {i \in C18_Translated : IsErr(C18_Translation(i)) /\ ~C18_Annotated(i, <<"f", "a", "l", "s", "e">>)}

\* the returned rule of block i is degenerate
C18_Degenerate(i) ==
    \E k \in 1..Len(parsed.ok) :
        /\ parsed.ok[k].shape_uri = RuleIri(i)
        /\ parsed.ok[k].ast = None /\ parsed.ok[k].sparql = None
        /\ parsed.ok[k].affected_fields = << >> /\ ~parsed.ok[k].introspectable

\* C18: when the translation of a rule fails with an unsupported construct and
\* the rule is introspectable (annotation true or absent), parse returns a
\* ParseError and no rules: the error of one such faulty rule, which names the
\* node and lists the predicates found on it. When the rule is annotated
\* introspectable=false and no rule is faulty, parse succeeds and returns for it
\* a degenerate rule: no AST, no raw query, empty affected_fields.
C18_UnsupportedPolicy ==
    (pc = "done" /\ C18_WellFormed) =>
        \A i \in C18_Translated :
            C18_Fails(i, "UnsupportedConstruct") =>
                /\ i \in C18_Faulty =>
                      /\ IsErr(parsed)
                      /\ parsed.err \in {C18_Translation(j).err : j \in C18_Faulty}
                      /\ C18_Faulty = {i} =>
                            /\ parsed.err.kind = "UnsupportedConstruct"
                            /\ parsed.err.msg.node \in {BKey(i, <<"p">>), BKey(i, <<"n">>)}
                            /\ parsed.err.msg.predicates \in
                                  {<<<<"p", "a", "t", "h">>, <<"p", "a", "t", "t", "e", "r", "n">>>>, <<<<"c", "l", "a", "s", "s">>>>}
                /\ (C18_Annotated(i, <<"f", "a", "l", "s", "e">>) /\ C18_Faulty = {}) =>
                      ~IsErr(parsed) /\ C18_Degenerate(i)

\* an sh:pattern rule annotated introspectable=false is returned as a degenerate
\* rule, after a rule that translates
C18_Witness ==
    /\ pc = "done" /\ Len(ttl) = 2 /\ ~IsErr(parsed) /\ Len(parsed.ok) = 2
    /\ parsed.ok[1].ast # None
    /\ C18_Annotated(2, <<"f", "a", "l", "s", "e">>) /\ C18_Fails(2, "UnsupportedConstruct")
    /\ ttl[2] \in {h \o a \o PatternBody(2) : h \in Headers(2), a \in Annotations(2)}
    /\ parsed.ok[2].shape_uri = RuleIri(2) /\ parsed.ok[2].ast = None

\* the same sh:pattern rule without annotation: the error names the property
\* and lists the pattern predicate
C18_WitnessPropagated ==
    /\ pc = "done" /\ Len(ttl) = 1 /\ IsErr(parsed)
    /\ ttl[1] \in {h \o PatternBody(1) : h \in Headers(1)}
    /\ parsed.err.kind = "UnsupportedConstruct"
    /\ parsed.err.msg.property = <<"p">>
    /\ parsed.err.msg.predicates = <<<<"p", "a", "t", "h">>, <<"p", "a", "t", "t", "e", "r", "n">>>>

\* C19: every rule returned by the parser satisfies: introspectable=false
\* implies no AST, and never both an AST and a raw query.
C19_RuleInvariant ==
    (pc = "done" /\ ~IsErr(parsed)) =>
        \A k \in 1..Len(parsed.ok) :
            /\ ~parsed.ok[k].introspectable => parsed.ok[k].ast = None
            /\ ~(parsed.ok[k].ast # None /\ parsed.ok[k].sparql # None)

\* the block a returned rule was read from
C19_BlockOf(shape) == CHOOSE i \in 1..Len(ttl) : RuleIri(i) = shape.shape_uri

\* the second half holds, and the first half fails only for a rule annotated
\* introspectable=false that has no raw-query node and whose constraints translate
C19_ExceptAnnotatedTranslatable ==
    (pc = "done" /\ ~IsErr(parsed)) =>
        \A k \in 1..Len(parsed.ok) :
            /\ ~(parsed.ok[k].ast # None /\ parsed.ok[k].sparql # None)
            /\ (~parsed.ok[k].introspectable /\ parsed.ok[k].ast # None) =>
                  /\ C18_Annotated(C19_BlockOf(parsed.ok[k]), <<"f", "a", "l", "s", "e">>)
                  /\ ~C18_HasQuery(C19_BlockOf(parsed.ok[k]))
                  /\ ~IsErr(C18_Translation(C19_BlockOf(parsed.ok[k])))

\* a rule annotated introspectable=false with one sh:hasValue property and no
\* raw-query node is returned with introspectable false and an AST
C19_AnnotatedFalseWithAst ==
    /\ pc = "done" /\ Len(ttl) = 1 /\ ~IsErr(parsed) /\ Len(parsed.ok) = 1
    /\ ttl[1] \in {h \o a \o HasValueBody(1) : h \in Headers(1), a \in Annotations(1)}
    /\ C18_Annotated(1, <<"f", "a", "l", "s", "e">>)
    /\ ~parsed.ok[1].introspectable
    /\ parsed.ok[1].ast = Some(PropEquals(PIri(a360(<<"p">>)), JStr(<<"a">>)))

\* C20: a MissingField error (a property constraint without sh:path, or a rule
\* without any constraint component) always comes out of parse as an error,
\* whatever the introspectable annotation of the rule; a syntax error in the
\* text always comes out as a Turtle error.
C20_AlwaysPropagates ==
    pc = "done" =>
        /\ ~C18_WellFormed => IsErr(parsed) /\ parsed.err.kind = "Turtle"
        /\ C18_WellFormed =>
              \A i \in C18_Translated : C18_Fails(i, "MissingField") => IsErr(parsed)

\* the syntax half holds, and a MissingField error comes out whenever the rule
\* is not annotated introspectable=false
C20_PropagatesUnlessAnnotatedFalse ==
    pc = "done" =>
        /\ ~C18_WellFormed => IsErr(parsed) /\ parsed.err.kind = "Turtle"
        /\ C18_WellFormed =>
              \A i \in C18_Translated :
                  (C18_Fails(i, "MissingField") /\ ~C18_Annotated(i, <<"f", "a", "l", "s", "e">>)) =>
                      IsErr(parsed) /\ parsed.err \in {C18_Translation(j).err : j \in C18_Faulty}

\* a rule annotated introspectable=false whose property constraint has no
\* sh:path is returned as a degenerate rule instead of an error
C20_MissingPathSwallowed ==
    /\ pc = "done" /\ Len(ttl) = 1 /\ ~IsErr(parsed) /\ Len(parsed.ok) = 1
    /\ ttl[1] \in {h \o a \o NoPathBody(1) : h \in Headers(1), a \in Annotations(1)}
    /\ C18_Translation(1) =
          Err(MissingField([what |-> "sh:path missing on property shape",
                            node |-> BKey(1, <<"p">>)]))
    /\ C18_Degenerate(1)

\* the same for a rule without any constraint component
C20_NoConstraintSwallowed ==
    /\ pc = "done" /\ Len(ttl) = 1 /\ ~IsErr(parsed) /\ Len(parsed.ok) = 1
    /\ ttl[1] \in {h \o a : h \in Headers(1), a \in Annotations(1)}
    /\ C18_Fails(1, "MissingField")
    /\ C18_Degenerate(1)

\* the query text of rule block i and the message written on its sh:sparql node
C21_QueryText(i) ==
    (CHOOSE item \in {ttl[i][k] : k \in 1..Len(ttl[i])} : item.p = sh(<<"s", "e", "l", "e", "c", "t">>)).o.v
C21_OwnMessage(i) ==
    \E k \in 1..Len(ttl[i]) : ttl[i][k].s = BKey(i, <<"q">>) /\ ttl[i][k].p = sh(<<"m", "e", "s", "s", "a", "g", "e">>)

\* the message of rule i itself in the preferred language
C21_RuleMessage(i) ==
    UnwrapOr(literal_for_language(C18_Store, RuleIri(i), sh(<<"m", "e", "s", "s", "a", "g", "e">>), preferred), << >>)

\* the local names of the IRIs written in the BIND patterns of the two queries
C21_BindNames(text) == <<<<"p">>, <<"q">>>>

\* the rule returned for block i
C21_RuleOf(i) ==
    parsed.ok[CHOOSE k \in 1..Len(parsed.ok) : parsed.ok[k].shape_uri = RuleIri(i)]

\* what the statement says of the rule of block i, except for affected_fields
C21_RawRule(i) ==
    /\ \E k \in 1..Len(parsed.ok) : parsed.ok[k].shape_uri = RuleIri(i)
    /\ ~C21_RuleOf(i).introspectable
    /\ C21_RuleOf(i).ast = None
    /\ C21_RuleOf(i).sparql = Some(C21_QueryText(i))
    /\ C21_RuleOf(i).message = IF C21_OwnMessage(i) THEN <<"s">> ELSE C21_RuleMessage(i)

\* C21: a rule with an sh:sparql node is returned as a non-introspectable rule
\* with no AST, the query text, the node's own message (else the rule message)
\* and affected_fields equal to the sorted, duplicate-free local names of the
\* IRIs in its BIND(<iri> AS ?var) patterns, whatever its introspectable
\* annotation; its structural constraints are not translated and raise no error.
C21_RawQueryRule ==
    (pc = "done" /\ C18_WellFormed) =>
        /\ C18_Faulty = {} => ~IsErr(parsed)
        /\ ~IsErr(parsed) =>
              \A i \in 1..Len(ttl) :
                  (C18_InClass(i) /\ C18_HasQuery(i)) =>
                      /\ C21_RawRule(i)
                      /\ C21_RuleOf(i).affected_fields = C21_BindNames(C21_QueryText(i))

\* the same, with affected_fields as stated only for queries whose BIND
\* patterns write no IRI in angle brackets
C21_ExceptBracketedIri ==
    (pc = "done" /\ C18_WellFormed) =>
        /\ C18_Faulty = {} => ~IsErr(parsed)
        /\ ~IsErr(parsed) =>
              \A i \in 1..Len(ttl) :
                  (C18_InClass(i) /\ C18_HasQuery(i)) =>
                      /\ C21_RawRule(i)
                      /\ C21_QueryText(i) = SELECT_PREFIXED =>
                            C21_RuleOf(i).affected_fields = <<<<"p">>, <<"q">>>>

\* a rule whose query holds BIND(<be/asset360/p> AS ?w) is returned with the
\* field name p> instead of p
C21_BracketedIriField ==
    /\ pc = "done" /\ Len(ttl) = 1 /\ ~IsErr(parsed) /\ Len(parsed.ok) = 1
    /\ C18_HasQuery(1) /\ C21_QueryText(1) = SELECT_TEXT
    /\ parsed.ok[1].affected_fields = <<<<"p", ">">>, <<"q">>>>

\* a rule annotated introspectable=true with a query and an sh:pattern
\* constraint is returned as a raw-query rule
C21_QueryBesidePattern ==
    /\ pc = "done" /\ Len(ttl) = 1 /\ ~IsErr(parsed) /\ Len(parsed.ok) = 1
    /\ ttl[1] \in {h \o a \o SparqlBody(1, FALSE) \o PatternBody(1) :
                     h \in Headers(1), a \in Annotations(1)}
    /\ C18_Annotated(1, <<"t", "r", "u", "e">>)
    /\ parsed.ok[1].sparql = Some(SELECT_TEXT) /\ parsed.ok[1].ast = None

-----------------------------------------------------------------------------
(* Specification SpecTotal: every operation on composed ASTs and on records *)
(* that are objects or not                                                 *)

\* the fields of a record as a serde_json::Map; a caller holding a value that
\* is not an object has no map to pass
MapOf(v) == IF v.t = "Obj" THEN v.o ELSE EmptyMap

\* the registry around the rule: a shape with the AST, a SPARQL shape with a
\* joining query, a shape with neither
TotalShapes ==
    <<AstShape(rule),
      QueryShape(TwoLines(<<"x", ":", "s">>, VAR_v, SUBJ_o, <<"x", ":", "s">>, VAR_v)),
      DegenerateShape>>

InitTotal ==
    /\ pc = "build"
    /\ rule \in AstLeaves
    /\ data \in EvalRecords
    /\ level \in {"Serious"}
    /\ violations = NotRun
    /\ goal \in {F_P, F_S}
    /\ outcome = NotRun
    /\ SimplifyIdle /\ SolveIdle /\ PredIdle /\ SetIdle /\ LooseIdle /\ CountIdle /\ ScopeIdle
    /\ ParseIdle /\ WalkIdle

\* evaluate_forward(ast, data, message, level)
TotalForward ==
    /\ pc = "build"
    /\ outcome' = [op |-> "evaluate_forward",
                   result |-> evaluate_forward(rule, data, MSG, level)]
    /\ pc' = "done"
    /\ UNCHANGED <<rule, data, level, violations, goal, simplifyVars, solveVars, predVars,
                   setVars, looseVars, countVars, scopeVars, parseVars, walkVars>>

\* solve_backward(ast, known, target_field), the target left in known or not
TotalBackward ==
    /\ pc = "build"
    /\ \E known_fields \in {MapOf(data), KnownFields(MapOf(data), goal)} :
          outcome' = [op |-> "solve_backward", known |-> known_fields,
                      result |-> solve_backward(rule, known_fields, goal)]
    /\ pc' = "done"
    /\ UNCHANGED <<rule, data, level, violations, goal, simplifyVars, solveVars, predVars,
                   setVars, looseVars, countVars, scopeVars, parseVars, walkVars>>

\* ConstraintSet::evaluate(object_data)
TotalSetEvaluate ==
    /\ pc = "build"
    /\ outcome' = [op |-> "evaluate", result |-> ConstraintSet_evaluate(TotalShapes, data)]
    /\ pc' = "done"
    /\ UNCHANGED <<rule, data, level, violations, goal, simplifyVars, solveVars, predVars,
                   setVars, looseVars, countVars, scopeVars, parseVars, walkVars>>

\* ConstraintSet::solve(object_data, target_field)
TotalSetSolve ==
    /\ pc = "build"
    /\ \E sch \in Schemas :
          outcome' = [op |-> "solve",
                      result |-> ConstraintSet_solve(TotalShapes, sch, data, goal)]
    /\ pc' = "done"
    /\ UNCHANGED <<rule, data, level, violations, goal, simplifyVars, solveVars, predVars,
                   setVars, looseVars, countVars, scopeVars, parseVars, walkVars>>

\* ConstraintSet::scope(focus_data, uri_field)
TotalSetScope ==
    /\ pc = "build"
    /\ outcome' = [op |-> "scope",
                   result |-> ConstraintSet_scope(TotalShapes, MapOf(data), goal)]
    /\ pc' = "done"
    /\ UNCHANGED <<rule, data, level, violations, goal, simplifyVars, solveVars, predVars,
                   setVars, looseVars, countVars, scopeVars, parseVars, walkVars>>

NextTotal ==
    \/ GrowNot \/ GrowAnd \/ GrowOr
    \/ TotalForward \/ TotalBackward \/ TotalSetEvaluate \/ TotalSetSolve \/ TotalSetScope

SpecTotal == InitTotal /\ [][NextTotal]_vars

\* a well-formed Predicate
RECURSIVE C22_IsPredicate(_)
C22_IsPredicate(q) ==
    /\ "p" \in DOMAIN q
    /\ CASE q.p = "Simple" -> DOMAIN q = {"p", "field_id", "predicate_type_id", "value"}
         [] q.p = "Negated" -> C22_IsPredicate(q.predicate)
         [] q.p = "Expression" ->
               /\ q.operator \in {"AND", "OR"}
               /\ \A i \in 1..Len(q.predicates) : C22_IsPredicate(q.predicates[i])
         [] OTHER -> FALSE

\* an Option<Predicate>
C22_IsOptionPredicate(r) == r = None \/ ("some" \in DOMAIN r /\ C22_IsPredicate(r.some))

\* a Vec<Violation> of at most n violations
C22_IsViolations(r, n) ==
    /\ Len(r) <= n
    /\ \A i \in 1..Len(r) :
          DOMAIN r[i] = {"fields", "message", "enforcement_level", "suggested_fix"}

\* an Option<FieldConstraint>
C22_IsOptionFieldConstraint(r) ==
    \/ r = None
    \/ /\ "some" \in DOMAIN r
       /\ \/ r.some.fc = "AllowedValues"
          \/ r.some.fc = "Query" /\ C22_IsPredicate(r.some.predicate)

\* C22: evaluate_forward, solve_backward and ConstraintSet evaluate, solve and
\* scope return a result of their type for every input: ASTs with empty
\* And/Or, paths that do not resolve, records that are not objects or lack the
\* fields, the target in the record or not; solve on a record that is not an
\* object returns none.
C22_Total ==
    outcome # NotRun =>
        CASE outcome.op = "evaluate_forward" -> C22_IsViolations(outcome.result, 1)
          [] outcome.op = "solve_backward" -> C22_IsOptionPredicate(outcome.result)
          [] outcome.op = "evaluate" -> C22_IsViolations(outcome.result, 1)
          [] outcome.op = "solve" ->
                /\ C22_IsOptionFieldConstraint(outcome.result)
                /\ data.t # "Obj" => outcome.result = None
          [] outcome.op = "scope" -> C22_IsOptionPredicate(outcome.result)

\* solve on a record that is a string, the rule negated around an empty Or
C22_Witness ==
    /\ outcome # NotRun /\ outcome.op = "solve" /\ data = V_a
    /\ rule = ANot(AOr(<< >>)) /\ outcome.result = None

\* forward evaluation of an inverse path under And on a record that is a string
C22_WitnessForward ==
    /\ outcome # NotRun /\ outcome.op = "evaluate_forward" /\ data = V_a
    /\ rule = AAnd(<<PropEquals(PInverse(PathP), V_a)>>) /\ Len(outcome.result) = 1

\* solve_backward with the target in known on an object record
C22_WitnessBackward ==
    /\ outcome # NotRun /\ outcome.op = "solve_backward" /\ goal = F_P
    /\ data = Rec2(F_P, JNull, F_Q, V_a) /\ rule = ANot(PropCount(PathP, Some(1), Some(2)))
    /\ outcome.result # None

\* the simplified nodes that are a FieldConstraint, anywhere in a tree
RECURSIVE C23_HasFieldConstraint(_)
C23_HasFieldConstraint(n) ==
    CASE n.k = "FC" -> TRUE
      [] n.k = "Not" -> C23_HasFieldConstraint(n.c)
      [] n.k \in {"And", "Or"} -> \E i \in 1..Len(n.cs) : C23_HasFieldConstraint(n.cs[i])
      [] OTHER -> FALSE

\* C23: when the target field is in the known map given to solve_backward it is
\* treated as known: substitute produces no field constraint, and the result is
\* none when the substituted formula simplifies to true and exactly
\* Simple(target, "in", []) when it simplifies to false.
C23_TargetKnown ==
    (outcome # NotRun /\ outcome.op = "solve_backward" /\ goal \in DOMAIN outcome.known) =>
        LET substituted == substitute(rule, outcome.known, goal) IN
        /\ ~C23_HasFieldConstraint(substituted)
        /\ simplify(substituted) \in {SBool(TRUE), SBool(FALSE)}
        /\ simplify(substituted) = SBool(TRUE) => outcome.result = None
        /\ simplify(substituted) = SBool(FALSE) =>
              outcome.result = Some(PSimple(goal, OP_IN, Some(JArr(<< >>))))

\* both fields known, the rule on the target refuted by its known value
C23_Witness ==
    /\ outcome # NotRun /\ outcome.op = "solve_backward" /\ goal = F_P
    /\ data = Rec2(F_P, V_a, F_S, V_a) /\ outcome.known = data.o
    /\ rule = ANot(PropEquals(PathP, V_a))
    /\ outcome.result = Some(PSimple(F_P, OP_IN, Some(JArr(<< >>))))

\* the rule on the target satisfied by its known value
C23_WitnessTrue ==
    /\ outcome # NotRun /\ outcome.op = "solve_backward" /\ goal = F_P
    /\ data = Rec2(F_P, V_a, F_S, V_a) /\ outcome.known = data.o
    /\ rule = AAnd(<<PropEquals(PathP, V_a), PropIn(PathS, <<V_a>>)>>)
    /\ outcome.result = None

-----------------------------------------------------------------------------
(* Specification SpecBackward: solve_backward on composed ASTs over        *)
(* PropEquals / PropIn / PropCount leaves, with known maps that hold some, *)
(* all or none of the referenced fields                                    *)

IRI_R == <<"x", "/", "r">>
F_R == <<"r">>
PathR == PIri(IRI_R)

\* leaves on three fields with a local name and on a bare IRI without one
BackLeaves ==
    { PropEquals(PathP, V_a), PropIn(PathS, <<V_a, V_b>>), PropEquals(PathR, V_a),
      PropEquals(PIri(IRI_Q), V_a), PropCount(PathP, Some(1), Some(2)),
      PropEquals(PathS, JBool(TRUE)) }

BackValues == {V_a, V_b}

\* the known maps: every map from a subset of the named fields to a value,
\* and maps with a list, a boolean and a field named like the bare IRI
BackKnown ==
    { JObj(m) : m \in UNION { [D -> BackValues] : D \in SUBSET {F_P, F_S, F_R} } }
      \cup { Rec1(F_P, JArr(<<V_a, V_b, V_c>>)), Rec2(F_Q, V_a, F_S, V_a),
             Rec2(F_Q, V_b, F_P, V_a), Rec1(F_S, JBool(TRUE)), Rec1(F_S, V_true),
             Rec2(F_P, V_true, F_R, V_a) }

InitBackward ==
    /\ pc = "build"
    /\ rule \in BackLeaves
    /\ data \in BackKnown
    /\ level \in {"Serious"}
    /\ violations = NotRun
    /\ goal \in {F_P, F_S}
    /\ outcome = NotRun
    /\ SimplifyIdle /\ SolveIdle /\ PredIdle /\ SetIdle /\ LooseIdle /\ CountIdle /\ ScopeIdle
    /\ ParseIdle /\ WalkIdle

\* solve_backward(ast, known, target_field) on the fields of data
SolveBackward ==
    /\ pc = "build"
    /\ outcome' = [op |-> "solve_backward", known |-> data.o,
                   result |-> solve_backward(rule, data.o, goal)]
    /\ pc' = "done"
    /\ UNCHANGED <<rule, data, level, violations, goal, simplifyVars, solveVars, predVars,
                   setVars, looseVars, countVars, scopeVars, parseVars, walkVars>>

NextBackward == GrowNot \/ GrowAnd \/ GrowOr \/ SolveBackward

SpecBackward == InitBackward /\ [][NextBackward]_vars

\* whether a predicate accepts a JSON value of the target field, under the
\* loose equality of the solver
RECURSIVE C24_Holds(_, _)
C24_Holds(q, v) ==
    CASE q.p = "Simple" ->
            IF q.predicate_type_id = OP_EQUALS THEN values_equal_json(v, q.value.some)
            ELSE \E i \in 1..Len(q.value.some.a) : values_equal_json(v, q.value.some.a[i])
      [] q.p = "Negated" -> ~C24_Holds(q.predicate, v)
      [] q.p = "Expression" ->
            IF q.operator = "AND"
            THEN \A i \in 1..Len(q.predicates) : C24_Holds(q.predicates[i], v)
            ELSE \E i \in 1..Len(q.predicates) : C24_Holds(q.predicates[i], v)

\* a solver result accepts a value: none accepts every value
C24_Accepts(r, v) == r = None \/ C24_Holds(r.some, v)

\* an AST of And / Or / Not over PropEquals / PropIn leaves
RECURSIVE C24_EqualsInOnly(_)
C24_EqualsInOnly(n) ==
    CASE n.a = "Not" -> C24_EqualsInOnly(n.child)
      [] n.a \in {"And", "Or"} -> \A i \in 1..Len(n.children) : C24_EqualsInOnly(n.children[i])
      [] OTHER -> n.a \in {"PropEquals", "PropIn"}

\* the record fields the leaves of an AST read
RECURSIVE C24_Fields(_)
C24_Fields(n) ==
    CASE n.a = "Not" -> C24_Fields(n.child)
      [] n.a \in {"And", "Or"} -> UNION { C24_Fields(n.children[i]) : i \in 1..Len(n.children) }
      [] OTHER -> { ResolveLocal(n.path.iri) }

\* the referenced fields that are neither known nor the target
C24_Unknown == (C24_Fields(rule) \ DOMAIN outcome.known) \ {goal}

\* the record known + {target: v} + an assignment of the unknown fields
C24_Record(v, asg) ==
    JObj([f \in DOMAIN outcome.known \cup {goal} \cup DOMAIN asg |->
            IF f = goal THEN v
            ELSE IF f \in DOMAIN asg THEN asg[f] ELSE outcome.known[f]])

C24_Candidates == {V_a, V_b, V_c}

\* a target value that some assignment of the unknown fields makes valid
C24_Satisfiable(v) ==
    \E asg \in [C24_Unknown -> C24_Candidates] : eval_node(rule, C24_Record(v, asg))

C24_Solved ==
    /\ pc = "done"
    /\ outcome.op = "solve_backward"
    /\ C24_EqualsInOnly(rule)
    /\ goal \notin DOMAIN outcome.known

\* C24: the predicate solve_backward returns accepts every target value that
\* some assignment of the unknown non-target fields makes valid for forward
\* evaluation of known + {target: v}; a none result accepts every value
C24_Conservative ==
    C24_Solved => \A v \in C24_Candidates : C24_Satisfiable(v) => C24_Accepts(outcome.result, v)

\* no leaf on an unknown non-target field, and no leaf on a path without a
\* local name, stands under an odd number of Not
RECURSIVE C24_UnknownPositive(_, _)
C24_UnknownPositive(n, negated) ==
    CASE n.a = "Not" -> C24_UnknownPositive(n.child, ~negated)
      [] n.a \in {"And", "Or"} ->
            \A i \in 1..Len(n.children) : C24_UnknownPositive(n.children[i], negated)
      [] OTHER ->
            \/ ~negated
            \/ /\ local_name(n.path) # None
               /\ local_name(n.path).some \in DOMAIN outcome.known \cup {goal}

\* the replacement is conservative where no unknown leaf is negated
C24_ConservativeUnnegated ==
    (C24_Solved /\ C24_UnknownPositive(rule, FALSE)) =>
        \A v \in C24_Candidates : C24_Satisfiable(v) => C24_Accepts(outcome.result, v)

\* a negated leaf on an unknown field: every target value is rejected although
\* a value of the unknown field makes the record valid
C24_NegatedUnknownRejects ==
    /\ C24_Solved
    /\ rule = ANot(PropEquals(PathR, V_a))
    /\ outcome.known = EmptyMap
    /\ outcome.result = Some(Predicate_simple(goal, OP_IN, JArr(<< >>)))
    /\ C24_Satisfiable(V_a)

\* an unknown leaf beside a target leaf, not negated: the target leaf survives
C24_UnnegatedUnknown ==
    /\ C24_Solved
    /\ C24_UnknownPositive(rule, FALSE)
    /\ C24_Unknown # {}
    /\ outcome.result # None
    /\ \E v \in C24_Candidates : C24_Satisfiable(v)
    /\ \E v \in C24_Candidates : ~C24_Accepts(outcome.result, v)

\* a solved rule of the form Not(Not(r))
C25_DoublyNegated ==
    /\ pc = "done"
    /\ outcome.op = "solve_backward"
    /\ rule.a = "Not"
    /\ rule.child.a = "Not"

\* the intermediate node of the doubly negated part: Substitute's output for r
C25_Inner == substitute(rule.child.child, outcome.known, goal)

\* a Negated whose inner predicate is itself Negated, anywhere in a predicate
RECURSIVE C25_NestedNegation(_)
C25_NestedNegation(q) ==
    CASE q.p = "Negated" -> q.predicate.p = "Negated" \/ C25_NestedNegation(q.predicate)
      [] q.p = "Expression" -> \E i \in 1..Len(q.predicates) : C25_NestedNegation(q.predicates[i])
      [] OTHER -> FALSE

\* C25: simplify cancels a double negation, simplify(Not(Not(x))) = simplify(x),
\* so solve_backward on Not(Not(r)) returns what it returns on r and never a
\* Negated whose inner predicate is itself Negated
C25_DoubleNegationCancelled ==
    C25_DoublyNegated =>
        /\ simplify(SNot(SNot(C25_Inner))) = simplify(C25_Inner)
        /\ outcome.result = solve_backward(rule.child.child, outcome.known, goal)
        /\ outcome.result # None => ~C25_NestedNegation(outcome.result.some)

\* what simplify does with a double negation: it cancels it over a Bool, and
\* otherwise yields a result that accepts the same target values as r's
C25_CancelledOverBool ==
    C25_DoublyNegated =>
        /\ simplify(C25_Inner).k = "Bool" =>
              simplify(SNot(SNot(C25_Inner))) = simplify(C25_Inner)
        /\ simplify(C25_Inner).k = "FC" /\ simplify(C25_Inner).kind = "Equals" =>
              simplify(SNot(SNot(C25_Inner))) =
                  SNot(FCNotEquals(simplify(C25_Inner).field, simplify(C25_Inner).v))
        /\ C24_EqualsInOnly(rule) =>
              \A v \in C24_Candidates :
                  C24_Accepts(outcome.result, v) <=>
                      C24_Accepts(solve_backward(rule.child.child, outcome.known, goal), v)

\* Not(Not(PropEquals(target, v))) solved to NOT(NOT(equals(target, v)))
C25_NegatedTwice ==
    /\ C25_DoublyNegated
    /\ rule = ANot(ANot(PropEquals(PathP, V_a)))
    /\ goal = F_P
    /\ outcome.known = EmptyMap
    /\ outcome.result =
          Some(Predicate_not(Predicate_not(Predicate_simple(F_P, OP_EQUALS, V_a))))

\* a double negation over a leaf on a known field: cancelled
C25_CancelledBool ==
    /\ C25_DoublyNegated
    /\ rule.child.child.a = "PropEquals"
    /\ simplify(C25_Inner) = SBool(FALSE)
    /\ outcome.result = Some(Predicate_simple(goal, OP_IN, JArr(<< >>)))

\* the outcome of a second call on the same text, class filter and language,
\* whose subject index yields the NodeShape subjects in the given order
C26_SecondCall(order) == parse_shacl(TurtleItems(ttl), classFilter, preferred, order)

C26_Elements(s) == { s[i] : i \in 1..Len(s) }

\* C26: a second call of parse_shacl with the same text, class filter and
\* language returns the same outcome, whatever order the subject index yields
C26_Reproducible ==
    pc = "done" => \A order \in ParseOrders(TurtleItems(ttl)) : C26_SecondCall(order) = parsed

\* what two calls do share: both fail or both succeed, and two successful
\* calls return the same rules, each once, in some order
C26_ReproducibleUpToOrder ==
    pc = "done" =>
        \A order \in ParseOrders(TurtleItems(ttl)) :
            /\ IsErr(C26_SecondCall(order)) <=> IsErr(parsed)
            /\ ~IsErr(parsed) =>
                  /\ Len(C26_SecondCall(order).ok) = Len(parsed.ok)
                  /\ C26_Elements(C26_SecondCall(order).ok) = C26_Elements(parsed.ok)
            /\ Len(order) <= 1 => C26_SecondCall(order) = parsed

\* two rules returned in one order by one call and in the other by the next
C26_RulesSwapped ==
    /\ pc = "done"
    /\ ~IsErr(parsed)
    /\ Len(parsed.ok) = 2
    /\ \E order \in ParseOrders(TurtleItems(ttl)) :
          C26_SecondCall(order) = Ok(<<parsed.ok[2], parsed.ok[1]>>)

\* two faulty rules: one call reports the one, the next call the other
C26_ErrorsDiffer ==
    /\ pc = "done"
    /\ IsErr(parsed)
    /\ \E order \in ParseOrders(TurtleItems(ttl)) :
          IsErr(C26_SecondCall(order)) /\ C26_SecondCall(order) # parsed

\* an AST of And / Or / Not over PropEquals / PropIn leaves on Iri paths that
\* have a local name
RECURSIVE C27_NamedLeaves(_)
C27_NamedLeaves(n) ==
    CASE n.a = "Not" -> C27_NamedLeaves(n.child)
      [] n.a \in {"And", "Or"} -> \A i \in 1..Len(n.children) : C27_NamedLeaves(n.children[i])
      [] OTHER -> n.a \in {"PropEquals", "PropIn"} /\ n.path.pt = "Iri" /\ local_name(n.path) # None

\* a solved rule whose referenced fields are all known, except the target
C27_FullyKnown ==
    /\ pc = "done"
    /\ outcome.op = "solve_backward"
    /\ C27_NamedLeaves(rule)
    /\ goal \notin DOMAIN outcome.known
    /\ C24_Fields(rule) \ {goal} \subseteq DOMAIN outcome.known

\* the string candidates of an enum refinement
C27_Candidates == {<<"a">>, <<"b">>, <<"c">>, <<"t", "r", "u", "e">>}

\* the result evaluated on a candidate as ConstraintSet::solve's enum refinement
\* does: none accepts
C27_Refines(r, c) == r = None \/ evaluate_predicate_for_value(r.some, goal, c)

\* the record known + {target: v}
C27_Record(c) ==
    JObj([f \in DOMAIN outcome.known \cup {goal} |->
            IF f = goal THEN JStr(c) ELSE outcome.known[f]])

\* C27: with every referenced field but the target known, the predicate
\* solve_backward returns is true on a string candidate exactly when forward
\* evaluation of known + {target: candidate} holds
C27_Exact ==
    C27_FullyKnown =>
        \A c \in C27_Candidates : C27_Refines(outcome.result, c) <=> eval_node(rule, C27_Record(c))

\* a rule over the target and a known field that accepts one candidate and
\* rejects another
C27_Witness ==
    /\ C27_FullyKnown
    /\ goal \in C24_Fields(rule)
    /\ C24_Fields(rule) \ {goal} # {}
    /\ outcome.result # None
    /\ \E c \in C27_Candidates : C27_Refines(outcome.result, c) /\ eval_node(rule, C27_Record(c))
    /\ \E c \in C27_Candidates : ~C27_Refines(outcome.result, c) /\ ~eval_node(rule, C27_Record(c))

\* a boolean leaf on the target met by the candidate "true"
C27_WitnessLoose ==
    /\ C27_FullyKnown
    /\ rule = AAnd(<<PropEquals(PathS, JBool(TRUE)), PropEquals(PathP, V_b)>>)
    /\ goal = F_S
    /\ outcome.known = Rec1(F_P, V_b).o
    /\ outcome.result = Some(Predicate_simple(F_S, OP_EQUALS, JBool(TRUE)))
    /\ C27_Refines(outcome.result, <<"t", "r", "u", "e">>)

\* a rule solved with a record as known that holds every field the rule reads
C28_WholeRecord ==
    /\ pc = "done"
    /\ outcome.op = "solve_backward"
    /\ outcome.known = data.o
    /\ C24_Fields(rule) \subseteq DOMAIN data.o

\* every leaf is on an Iri with a `#` or `/` separator
RECURSIVE C28_Separated(_)
C28_Separated(n) ==
    CASE n.a = "Not" -> C28_Separated(n.child)
      [] n.a \in {"And", "Or"} -> \A i \in 1..Len(n.children) : C28_Separated(n.children[i])
      [] OTHER -> local_name(n.path) # None

\* C28: on a record that holds every referenced field, solve_backward with the
\* whole record as known returns none exactly when evaluate_forward returns no
\* violation, for Iri paths with or without a separator
C28_SolverAgreesWithForward ==
    C28_WholeRecord =>
        (outcome.result = None <=> evaluate_forward(rule, data, MSG, level) = << >>)

\* the agreement holds for the rules whose Iris all have a separator
C28_AgreeOnSeparated ==
    (C28_WholeRecord /\ C28_Separated(rule)) =>
        (outcome.result = None <=> evaluate_forward(rule, data, MSG, level) = << >>)

\* a leaf on an Iri without separator: the evaluator reads the field named by
\* the whole Iri and reports a violation, the solver reads nothing
C28_BareIriDisagrees ==
    /\ C28_WholeRecord
    /\ rule = PropEquals(PIri(IRI_Q), V_a)
    /\ data = Rec2(F_Q, V_b, F_P, V_a)
    /\ local_name(rule.path) = None
    /\ outcome.result = None
    /\ evaluate_forward(rule, data, MSG, level) # << >>

\* a violated rule on separated Iris: the solver returns the empty "in"
C28_SeparatedViolated ==
    /\ C28_WholeRecord
    /\ C28_Separated(rule)
    /\ Cardinality(C24_Fields(rule)) >= 2
    /\ outcome.result = Some(Predicate_simple(goal, OP_IN, JArr(<< >>)))
    /\ evaluate_forward(rule, data, MSG, level) # << >>

\* a solved rule with Substitute's output and its simplification
C29_Solved == pc = "done" /\ outcome.op = "solve_backward"
C29_Substituted == substitute(rule, outcome.known, goal)
C29_Simplified == simplify(C29_Substituted)

\* a tree without any Bool, whose And / Or have two children or more and whose
\* FieldConstraints are all on the target
RECURSIVE C29_BoolFree(_)
C29_BoolFree(n) ==
    CASE n.k = "Bool" -> FALSE
      [] n.k = "FC" -> n.field = goal
      [] n.k = "Not" -> C29_BoolFree(n.c)
      [] n.k \in {"And", "Or"} ->
            Len(n.cs) >= 2 /\ \A i \in 1..Len(n.cs) : C29_BoolFree(n.cs[i])

\* Extract maps every child of every And / Or to a predicate
RECURSIVE C29_NoBranchDropped(_)
C29_NoBranchDropped(n) ==
    CASE n.k = "Not" -> C29_NoBranchDropped(n.c)
      [] n.k \in {"And", "Or"} ->
            \A i \in 1..Len(n.cs) :
                extract_predicate(n.cs[i], goal) # None /\ C29_NoBranchDropped(n.cs[i])
      [] OTHER -> TRUE

\* a Bool somewhere in a tree
RECURSIVE C29_HasBool(_)
C29_HasBool(n) ==
    CASE n.k = "Bool" -> TRUE
      [] n.k = "Not" -> C29_HasBool(n.c)
      [] n.k \in {"And", "Or"} -> \E i \in 1..Len(n.cs) : C29_HasBool(n.cs[i])
      [] OTHER -> FALSE

\* C29: for every output of Substitute, simplify returns a single Bool or a
\* Bool-free tree whose And / Or have two children or more and whose
\* FieldConstraints are on the target, so Extract drops no branch
C29_NormalForm ==
    C29_Solved =>
        /\ C29_Simplified.k = "Bool" \/ C29_BoolFree(C29_Simplified)
        /\ C29_NoBranchDropped(C29_Simplified)
        /\ C29_Simplified.k # "Bool" => outcome.result # None

\* a substituted tree with constants and target constraints that simplifies to
\* a connective of target constraints
C29_Witness ==
    /\ C29_Solved
    /\ C29_HasBool(C29_Substituted)
    /\ C29_Substituted.k \in {"And", "Or"}
    /\ Len(C29_Substituted.cs) = 2
    /\ C29_Substituted.cs[1].k \in {"And", "Or"}
    /\ C29_Simplified.k \in {"And", "Or"}
    /\ outcome.result.some.p = "Expression"
    /\ Len(outcome.result.some.predicates) = Len(C29_Simplified.cs)

\* a negated connective pushed inwards by De Morgan
C29_WitnessDeMorgan ==
    /\ C29_Solved
    /\ rule.a = "Not"
    /\ rule.child.a = "Or"
    /\ C29_Simplified.k = "And"
    /\ \A i \in 1..Len(C29_Simplified.cs) : C29_Simplified.cs[i].k \in {"Not", "FC"}

-----------------------------------------------------------------------------
(* Specification SpecWalk: parse_constraint_node and collect_rdf_list run  *)
(* step by step, one call or loop iteration at a time, on stores whose     *)
(* triples may lead back to a node                                         *)

MaxTriples == 3
MaxFrames == 4
MaxItems == 3

\* two blank nodes the text can link in any way, and a property shape
\* `[ sh:path asset360:p ; sh:hasValue "a" ]`
WalkNodes == {<<"1">>, <<"2">>}
WalkLeaf == <<"3">>
WalkRoot == BlankKey(<<"1">>)
RdfNil == NamedNode(RDF_NIL)

LeafTriples ==
    <<TripleItem(BlankKey(WalkLeaf), sh(<<"p", "a", "t", "h">>), NamedNode(a360(<<"p">>))),
      TripleItem(BlankKey(WalkLeaf), sh(<<"h", "a", "s", "V", "a", "l", "u", "e">>), Plain(<<"a">>))>>

\* the triples a text can state about the two blank nodes
WalkTriples ==
    { TripleItem(BlankKey(s), sh(<<"n", "o", "t">>), BlankNode(o)) : s \in WalkNodes, o \in WalkNodes \cup {WalkLeaf} }
      \cup { TripleItem(BlankKey(s), sh(<<"a", "n", "d">>), BlankNode(o)) : s \in WalkNodes, o \in WalkNodes }
      \cup { TripleItem(WalkRoot, sh(<<"o", "r">>), BlankNode(<<"2">>)) }
      \cup { TripleItem(BlankKey(s), RDF_FIRST, BlankNode(o)) : s \in WalkNodes, o \in WalkNodes \cup {WalkLeaf} }
      \cup { TripleItem(BlankKey(s), RDF_REST, BlankNode(o)) : s \in WalkNodes, o \in WalkNodes }
      \cup { TripleItem(BlankKey(s), RDF_REST, RdfNil) : s \in WalkNodes }
      \cup { TripleItem(BlankKey(s), sh(<<"p", "r", "o", "p", "e", "r", "t", "y">>), BlankNode(WalkLeaf)) : s \in WalkNodes }

\* the store of the text
WalkStore == TripleStore_parse(graph \o LeafTriples).ok

\* an activation of parse_constraint_node(store, key): `at` is the point the
\* activation has reached, items the list it iterates, children its results
NodeFrame(key) ==
    [fn |-> "parse_constraint_node", key |-> key, at |-> "enter", kind |-> "",
     items |-> << >>, children |-> << >>, current |-> RdfNil, result |-> << >>, walked |-> {}]

\* an activation of collect_rdf_list(head): current and result are its locals;
\* walked, the keys the loop has left behind, is no local of the code
ListFrame(head) ==
    [fn |-> "collect_rdf_list", key |-> << >>, at |-> "loop", kind |-> "",
     items |-> << >>, children |-> << >>, current |-> head, result |-> << >>, walked |-> {}]

Top == frames[Len(frames)]
Caller == SubSeq(frames, 1, Len(frames) - 1)
ReplaceTop(f) == Append(Caller, f)

InitWalk ==
    /\ pc = "build"
    /\ graph = << >>
    /\ frames = << >>
    /\ returned = None
    /\ SimplifyIdle /\ SolveIdle /\ PredIdle /\ EvalIdle /\ SetIdle /\ LooseIdle /\ CountIdle
    /\ ScopeIdle /\ ParseIdle /\ TotalIdle

\* one more triple in the text
AddTriple ==
    /\ pc = "build"
    /\ Len(graph) < MaxTriples
    /\ \E t \in WalkTriples : graph' = Append(graph, t)
    /\ UNCHANGED <<pc, frames, returned, simplifyVars, solveVars, predVars, evalVars, setVars,
                   looseVars, countVars, scopeVars, parseVars, totalVars>>

\* parse_shape_ast calls parse_constraint_node on the object of a constraint
CallRoot ==
    /\ pc = "build"
    /\ pc' = "walk"
    /\ frames' = <<NodeFrame(WalkRoot)>>
    /\ UNCHANGED <<graph, returned, simplifyVars, solveVars, predVars, evalVars, setVars,
                   looseVars, countVars, scopeVars, parseVars, totalVars>>

\* the constraint component parse_constraint_node finds on a node, in the
\* order the code looks for them
ComponentOf(key) ==
    CASE first_object(WalkStore, key, sh(<<"n", "o", "t">>)) # None -> "not"
      [] first_object(WalkStore, key, sh(<<"a", "n", "d">>)) # None -> "and"
      [] first_object(WalkStore, key, sh(<<"o", "r">>)) # None -> "or"
      [] first_object(WalkStore, key, sh(<<"p", "r", "o", "p", "e", "r", "t", "y">>)) # None -> "property"
      [] first_object(WalkStore, key, sh(<<"p", "a", "t", "h">>)) # None -> "path"
      [] OTHER -> "none"

\* the list head of the node's sh:and, else of its sh:or
ListHeadOf(key) ==
    IF ComponentOf(key) = "and" THEN first_object(WalkStore, key, sh(<<"a", "n", "d">>)).some
    ELSE first_object(WalkStore, key, sh(<<"o", "r">>)).some

\* parse_constraint_node calls itself on the object of sh:not or on the next
\* list item, or calls collect_rdf_list on the head of sh:and / sh:or
Descend ==
    /\ pc = "walk"
    /\ returned = None
    /\ Top.fn = "parse_constraint_node"
    /\ Len(frames) < MaxFrames
    /\ \/ /\ Top.at = "enter"
          /\ ComponentOf(Top.key) = "not"
          /\ frames' = Append(ReplaceTop([Top EXCEPT !.at = "not"]),
                              NodeFrame(term_key(first_object(WalkStore, Top.key, sh(<<"n", "o", "t">>)).some)))
       \/ /\ Top.at = "enter"
          /\ ComponentOf(Top.key) \in {"and", "or"}
          /\ frames' = Append(ReplaceTop([Top EXCEPT !.at = "list", !.kind = ComponentOf(Top.key)]),
                              ListFrame(ListHeadOf(Top.key)))
       \/ /\ Top.at = "children"
          /\ Len(Top.children) < Len(Top.items)
          /\ frames' = Append(frames, NodeFrame(term_key(Top.items[Len(Top.children) + 1])))
    /\ UNCHANGED <<pc, graph, returned, simplifyVars, solveVars, predVars, evalVars, setVars,
                   looseVars, countVars, scopeVars, parseVars, totalVars>>

\* parse_constraint_node returns without a further call of itself: a property
\* shape, an unsupported node, or a junction whose children are all translated
Leaf ==
    /\ pc = "walk"
    /\ returned = None
    /\ Top.fn = "parse_constraint_node"
    /\ \/ /\ Top.at = "enter"
          /\ ComponentOf(Top.key) = "property"
          /\ returned' = Some(parse_property_shape(WalkStore,
                                term_key(first_object(WalkStore, Top.key, sh(<<"p", "r", "o", "p", "e", "r", "t", "y">>)).some)))
       \/ /\ Top.at = "enter"
          /\ ComponentOf(Top.key) = "path"
          /\ returned' = Some(parse_property_shape(WalkStore, Top.key))
       \/ /\ Top.at = "enter"
          /\ ComponentOf(Top.key) = "none"
          /\ returned' = Some(Err(UnsupportedConstruct(
                            [what |-> "construct", node |-> Top.key,
                             predicates |-> list_predicates(WalkStore, Top.key)])))
       \/ /\ Top.at = "children"
          /\ Len(Top.children) = Len(Top.items)
          /\ returned' = Some(Junction(Top.kind, Ok(Top.children)))
    /\ frames' = Caller
    /\ UNCHANGED <<pc, graph, simplifyVars, solveVars, predVars, evalVars, setVars,
                   looseVars, countVars, scopeVars, parseVars, totalVars>>

\* one iteration of collect_rdf_list's loop
ListStep ==
    /\ pc = "walk"
    /\ returned = None
    /\ Top.fn = "collect_rdf_list"
    /\ LET key == term_key(Top.current)
           first == first_object(WalkStore, key, RDF_FIRST)
           rest == first_object(WalkStore, key, RDF_REST)
       IN  IF key = RDF_NIL \/ first = None
           THEN frames' = Caller /\ returned' = Some(Top.result)
           ELSE IF rest = None
           THEN frames' = Caller /\ returned' = Some(Append(Top.result, first.some))
           ELSE /\ Len(Top.result) < MaxItems
                /\ frames' = ReplaceTop([Top EXCEPT !.result = Append(Top.result, first.some),
                                                    !.current = rest.some,
                                                    !.walked = Top.walked \cup {key}])
                /\ UNCHANGED returned
    /\ UNCHANGED <<pc, graph, simplifyVars, solveVars, predVars, evalVars, setVars,
                   looseVars, countVars, scopeVars, parseVars, totalVars>>

\* the caller takes the value its callee returned: the child of a Not, the
\* items of a list, the next child of a junction (its error ends the junction)
Resume ==
    /\ pc = "walk"
    /\ returned # None
    /\ frames # << >>
    /\ CASE Top.at = "not" ->
                frames' = Caller /\ returned' = Some(Negation(returned.some))
         [] Top.at = "list" ->
                /\ frames' = ReplaceTop([Top EXCEPT !.at = "children", !.items = returned.some])
                /\ returned' = None
         [] Top.at = "children" ->
                IF IsErr(returned.some)
                THEN frames' = Caller /\ UNCHANGED returned
                ELSE /\ frames' = ReplaceTop([Top EXCEPT !.children = Append(Top.children, returned.some.ok)])
                     /\ returned' = None
    /\ UNCHANGED <<pc, graph, simplifyVars, solveVars, predVars, evalVars, setVars,
                   looseVars, countVars, scopeVars, parseVars, totalVars>>

\* the outermost call returns to parse_shape_ast
Finish ==
    /\ pc = "walk"
    /\ returned # None
    /\ frames = << >>
    /\ pc' = "done"
    /\ UNCHANGED <<graph, frames, returned, simplifyVars, solveVars, predVars, evalVars, setVars,
                   looseVars, countVars, scopeVars, parseVars, totalVars>>

NextWalk == AddTriple \/ CallRoot \/ Descend \/ Leaf \/ ListStep \/ Resume \/ Finish

SpecWalk == InitWalk /\ [][NextWalk]_vars

\* an activation of parse_constraint_node on a node that an activation below
\* it on the stack is still translating: the same call with the same store,
\* which calls itself again
C30_Reentered ==
    \E i, j \in 1..Len(frames) :
        /\ i < j
        /\ frames[i].fn = "parse_constraint_node"
        /\ frames[j].fn = "parse_constraint_node"
        /\ frames[i].key = frames[j].key

\* collect_rdf_list back at a list node it has left before: the loop repeats
C30_ListRepeats ==
    \E i \in 1..Len(frames) :
        frames[i].fn = "collect_rdf_list" /\ term_key(frames[i].current) \in frames[i].walked

\* a finite tree of Not / And / Or over leaves, of bounded height
RECURSIVE C30_FiniteTree(_, _)
C30_FiniteTree(n, height) ==
    /\ height > 0
    /\ CASE n.a = "Not" -> C30_FiniteTree(n.child, height - 1)
         [] n.a \in {"And", "Or"} ->
               \A i \in 1..Len(n.children) : C30_FiniteTree(n.children[i], height - 1)
         [] OTHER -> TRUE

\* C30: the translation of a constraint node terminates on every text: it never
\* calls itself on a node it is already translating and never walks a list
\* node twice, and what it returns is an error or a finite tree
C30_Terminates ==
    pc \in {"walk", "done"} =>
        /\ ~C30_Reentered
        /\ ~C30_ListRepeats
        /\ pc = "done" => IsErr(returned.some) \/ C30_FiniteTree(returned.some.ok, MaxFrames)

\* the links the translation can follow from one node to another
C30_Links ==
    { <<graph[i].s, term_key(graph[i].o)>> : i \in 1..Len(graph) }

RECURSIVE C30_Reaches(_, _, _)
C30_Reaches(from, to, steps) ==
    /\ steps > 0
    /\ \/ <<from, to>> \in C30_Links
       \/ \E l \in C30_Links : l[1] = from /\ C30_Reaches(l[2], to, steps - 1)

\* no node of the text leads back to itself
C30_Acyclic == \A n \in WalkNodes : ~C30_Reaches(BlankKey(n), BlankKey(n), MaxTriples)

\* on a text without a link back, the translation never re-enters a node, never
\* repeats a list node, always has a next step until it returns, and returns an
\* error or a finite tree
C30_TerminatesWithoutCycle ==
    (pc \in {"walk", "done"} /\ C30_Acyclic) =>
        /\ ~C30_Reentered
        /\ ~C30_ListRepeats
        /\ Len(frames) < MaxFrames
        /\ \A i \in 1..Len(frames) : Len(frames[i].result) < MaxItems
        /\ pc = "walk" => ENABLED (Descend \/ Leaf \/ ListStep \/ Resume \/ Finish)
        /\ pc = "done" => IsErr(returned.some) \/ C30_FiniteTree(returned.some.ok, MaxFrames)

\* `_:1 sh:not _:1`: parse_constraint_node called on _:1 from within its own
\* translation of _:1
C30_NotLoop ==
    /\ pc = "walk"
    /\ graph = <<TripleItem(WalkRoot, sh(<<"n", "o", "t">>), BlankNode(<<"1">>))>>
    /\ Len(frames) >= 2
    /\ C30_Reentered

\* `_:1 sh:and _:2 . _:2 rdf:first _:3 ; rdf:rest _:2`: the loop of
\* collect_rdf_list is back at _:2 with one more item in its vector
C30_RestLoop ==
    /\ pc = "walk"
    /\ graph = <<TripleItem(WalkRoot, sh(<<"a", "n", "d">>), BlankNode(<<"2">>)),
                 TripleItem(BlankKey(<<"2">>), RDF_FIRST, BlankNode(WalkLeaf)),
                 TripleItem(BlankKey(<<"2">>), RDF_REST, BlankNode(<<"2">>))>>
    /\ C30_ListRepeats
    /\ Len(Top.result) >= 2

\* a nested rule without a link back, translated to a tree
C30_NestedReturned ==
    /\ pc = "done"
    /\ C30_Acyclic
    /\ ~IsErr(returned.some)
    /\ returned.some.ok.a \in {"And", "Or"}
    /\ Len(returned.some.ok.children) >= 1
    /\ returned.some.ok.children[1].a = "PropEquals"

=============================================================================
